---- MODULE Spec2Model ----
(***************************************************************************)
(* Session state machine of anime-watcher: the input router                *)
(* (src/src/tui/state.rs, App::handle_input and the handlers it calls),    *)
(* the key-binding matcher (src/src/config.rs) and the orchestration loop  *)
(* (src/src/main.rs, run_app) with the watch history it keeps              *)
(* (src/src/history.rs).                                                   *)
(*                                                                         *)
(* Strings are sequences of one-character strings.  Option<usize> cursors  *)
(* are integers with NoSel for None.  watch_history is the WatchHistory in *)
(* memory, history_file what history.json holds, key_queue the key events  *)
(* the terminal driver has read and the loop has not polled yet, calls the *)
(* file-system, catalog and downloader operations that the latest pass of  *)
(* the batch download loop made, retry one call of retry_with_backoff      *)
(* (src/src/api.rs).                                                       *)
(***************************************************************************)
EXTENDS Integers, Sequences, FiniteSets, TLC

VARIABLES app, action, pc, batch_queue, batch_idx, keys_handled,
          watch_history, history_file, key_queue, calls, retry

vars == <<app, action, pc, batch_queue, batch_idx, keys_handled,
          watch_history, history_file, key_queue, calls, retry>>

\* ------------------------------------------------------------------ bounds
\* Longest search_input the environment types.
MaxSearchLen == 1
\* Longest episode_filter the environment types.
MaxFilterLen == 1
\* Longest range_input the environment types.
MaxRangeLen == 3
\* Key events a session handles (keys that handle_input ignores aside).
MaxKeys == 8
\* Longest query w of the search-bar scenario.
MaxQueryLen == 2
\* The longest list of stream sources handed to choose_stream on its own.
MaxSources == 3
\* Longest episode_filter typed on the episode list on its own.
MaxFilterText == 2
\* Key events that arrive in a session whose keys wait in the driver's queue.
MaxArrivals == 5

\* ----------------------------------------------------------------- strings
Str1(a) == <<a>>

Last(s) == s[Len(s)]

\* String::pop: removes the last character, a no-op on the empty string.
Pop(s) == IF Len(s) = 0 THEN s ELSE SubSeq(s, 1, Len(s) - 1)

\* String::push
Push(s, c) == Append(s, c)

LowerTable ==
    [c \in {"A","B","C","D","E","F","G","H","I","J","K","L","M","N","O","P","Q",
            "R","S","T","U","V","W","X","Y","Z"} |->
        CASE c = "A" -> "a" [] c = "B" -> "b" [] c = "C" -> "c" [] c = "D" -> "d"
          [] c = "E" -> "e" [] c = "F" -> "f" [] c = "G" -> "g" [] c = "H" -> "h"
          [] c = "I" -> "i" [] c = "J" -> "j" [] c = "K" -> "k" [] c = "L" -> "l"
          [] c = "M" -> "m" [] c = "N" -> "n" [] c = "O" -> "o" [] c = "P" -> "p"
          [] c = "Q" -> "q" [] c = "R" -> "r" [] c = "S" -> "s" [] c = "T" -> "t"
          [] c = "U" -> "u" [] c = "V" -> "v" [] c = "W" -> "w" [] c = "X" -> "x"
          [] c = "Y" -> "y" [] c = "Z" -> "z"]

LowerChar(c) == IF c \in DOMAIN LowerTable THEN LowerTable[c] ELSE c

\* Variant: the text is compared as it is written.
to_lowercase_kept(s) == s

\* str::to_lowercase
to_lowercase(s) == [i \in 1..Len(s) |-> LowerChar(s[i])]

\* str::starts_with
starts_with(s, p) == Len(p) <= Len(s) /\ SubSeq(s, 1, Len(p)) = p

\* str::contains (substring search)
contains(s, p) ==
    \E i \in 1..(Len(s) - Len(p) + 1) : SubSeq(s, i, i + Len(p) - 1) = p

Digits == {"0","1","2","3","4","5","6","7","8","9"}

\* char::is_ascii_digit
is_ascii_digit(c) == c \in Digits

DigitVal(c) ==
    CASE c = "0" -> 0 [] c = "1" -> 1 [] c = "2" -> 2 [] c = "3" -> 3
      [] c = "4" -> 4 [] c = "5" -> 5 [] c = "6" -> 6 [] c = "7" -> 7
      [] c = "8" -> 8 [] c = "9" -> 9

DigitChar(d) ==
    CASE d = 0 -> "0" [] d = 1 -> "1" [] d = 2 -> "2" [] d = 3 -> "3"
      [] d = 4 -> "4" [] d = 5 -> "5" [] d = 6 -> "6" [] d = 7 -> "7"
      [] d = 8 -> "8" [] d = 9 -> "9"

RECURSIVE NatToString(_)
NatToString(n) ==
    IF n < 10 THEN <<DigitChar(n)>>
    ELSE Append(NatToString(n \div 10), DigitChar(n % 10))

\* i64::to_string
to_string(n) == IF n < 0 THEN <<"-">> \o NatToString(0 - n) ELSE NatToString(n)

RECURSIVE DigitsValue(_)
DigitsValue(s) ==
    IF Len(s) = 0 THEN 0 ELSE 10 * DigitsValue(Pop(s)) + DigitVal(Last(s))

\* str::parse::<i64>: an optional sign, then one or more ASCII digits; the result
\* is Ok(v) or Err.  (Overflow of an i64 needs nineteen digits or more; the texts
\* modelled here stay below nine digits, which the bound in wellformed records.)
parse_int(s) ==
    LET signed == Len(s) > 0 /\ s[1] \in {"+", "-"}
        body   == IF signed THEN SubSeq(s, 2, Len(s)) ELSE s
        wellformed == Len(body) > 0 /\ Len(body) <= 9
                      /\ \A i \in 1..Len(body) : is_ascii_digit(body[i])
        mag    == DigitsValue(body)
    IN  IF ~wellformed THEN [ok |-> FALSE, v |-> 0]
        ELSE [ok |-> TRUE, v |-> IF signed /\ s[1] = "-" THEN 0 - mag ELSE mag]

\* i32::MAX and i32::MIN
MaxI32 == 2147483647

MinI32 == (0 - MaxI32) - 1

\* The digits of s read as a negative number, accumulated digit by digit as
\* str::parse does for a signed type; under is set once the value falls below
\* i32::MIN (from then on v is not meaningful).
RECURSIVE NegDigitsValue(_)
NegDigitsValue(s) ==
    IF Len(s) = 0 THEN [under |-> FALSE, v |-> 0]
    ELSE LET r == NegDigitsValue(Pop(s))
             d == DigitVal(Last(s))
         IN  IF r.under \/ r.v < (MinI32 + d) \div 10 + (IF (MinI32 + d) % 10 = 0 THEN 0 ELSE 1)
             THEN [under |-> TRUE, v |-> 0]
             ELSE [under |-> FALSE, v |-> 10 * r.v - d]

\* Variant: the digits at the head of the text are parsed, the rest skipped.
parse_i32_lenient(s) ==
    LET n == IF \E i \in 1..Len(s) : ~is_ascii_digit(s[i])
             THEN (CHOOSE i \in 1..Len(s) :
                       ~is_ascii_digit(s[i]) /\ \A j \in 1..(i - 1) : is_ascii_digit(s[j])) - 1
             ELSE Len(s)
        neg == NegDigitsValue(SubSeq(s, 1, n))
    IN  IF n = 0 \/ neg.under \/ neg.v = MinI32 THEN [ok |-> FALSE, v |-> 0]
        ELSE [ok |-> TRUE, v |-> 0 - neg.v]

\* str::parse::<i32>: an optional sign, then one or more ASCII digits; Err for
\* anything else and for a value outside i32::MIN..i32::MAX.
parse_i32(s) ==
    LET signed == Len(s) > 0 /\ s[1] \in {"+", "-"}
        body   == IF signed THEN SubSeq(s, 2, Len(s)) ELSE s
        wellformed == Len(body) > 0 /\ \A i \in 1..Len(body) : is_ascii_digit(body[i])
        neg    == NegDigitsValue(body)
        minus  == signed /\ s[1] = "-"
    IN  IF ~wellformed \/ neg.under THEN [ok |-> FALSE, v |-> 0]
        ELSE IF minus THEN [ok |-> TRUE, v |-> neg.v]
        ELSE IF neg.v = MinI32 THEN [ok |-> FALSE, v |-> 0]
        ELSE [ok |-> TRUE, v |-> 0 - neg.v]

\* i32 subtraction x - y: v is the two's-complement result, overflow says the
\* exact difference is outside i32 (a build with overflow checks panics there).
sub_i32(x, y) ==
    IF y < 0 /\ x > MaxI32 + y
    THEN [overflow |-> TRUE, v |-> (x + MinI32) - (y - MinI32)]
    ELSE IF y > 0 /\ x < MinI32 + y
    THEN [overflow |-> TRUE, v |-> (x - MinI32) - (y + MinI32)]
    ELSE [overflow |-> FALSE, v |-> x - y]

\* i32::abs: i32::MIN has no absolute value in i32 (overflow; the wrapped result
\* is i32::MIN itself).
abs_i32(n) ==
    IF n = MinI32 THEN [overflow |-> TRUE, v |-> MinI32]
    ELSE [overflow |-> FALSE, v |-> IF n < 0 THEN 0 - n ELSE n]

RECURSIVE trim_start(_)
trim_start(s) == IF Len(s) > 0 /\ s[1] = " " THEN trim_start(Tail(s)) ELSE s

RECURSIVE trim_end(_)
trim_end(s) == IF Len(s) > 0 /\ Last(s) = " " THEN trim_end(Pop(s)) ELSE s

\* str::trim
trim(s) == trim_end(trim_start(s))

\* str::split(char): the pieces between the separators, in order; n separators
\* give n + 1 pieces, so the empty string gives one empty piece.
RECURSIVE split(_, _)
split(s, sep) ==
    IF \A i \in 1..Len(s) : s[i] # sep THEN <<s>>
    ELSE LET i == CHOOSE j \in 1..Len(s) :
                      s[j] = sep /\ \A m \in 1..(j - 1) : s[m] # sep
         IN  <<SubSeq(s, 1, i - 1)>> \o split(SubSeq(s, i + 1, Len(s)), sep)

\* usize::saturating_sub(1)
saturating_sub1(n) == IF n > 0 THEN n - 1 ELSE 0

\* ------------------------------------------------------------------- keys
\* A crossterm KeyEvent: the key code (a character for Char) and the CONTROL and
\* ALT modifiers.
KeyChar(c)    == [code |-> "Char", ch |-> c, ctrl |-> FALSE, alt |-> FALSE]
KeyCtrl(c)    == [code |-> "Char", ch |-> c, ctrl |-> TRUE, alt |-> FALSE]
KeyAlt(c)     == [code |-> "Char", ch |-> c, ctrl |-> FALSE, alt |-> TRUE]
KeyCode(name) == [code |-> name, ch |-> "", ctrl |-> FALSE, alt |-> FALSE]

KeyEnter     == KeyCode("Enter")
KeyEsc       == KeyCode("Esc")
KeyBackspace == KeyCode("Backspace")
KeyTab       == KeyCode("Tab")
KeyUp        == KeyCode("Up")
KeyDown      == KeyCode("Down")

\* KeyBinding::matches: the binding text is lowercased, a "ctrl+" prefix asks for
\* CONTROL, ALT is always refused, and the rest names a key code or one character.
KeyBinding_matches(binding, k) ==
    LET b        == to_lowercase(binding)
        ctrlpfx  == <<"c","t","r","l","+">>
        has_ctrl == starts_with(b, ctrlpfx)
        key_part == IF has_ctrl THEN SubSeq(b, 6, Len(b)) ELSE b
    IN  IF has_ctrl # k.ctrl THEN FALSE
        ELSE IF k.alt THEN FALSE
        ELSE CASE key_part = <<"e","n","t","e","r">> -> k.code = "Enter"
               [] key_part = <<"e","s","c">> -> k.code = "Esc"
               [] key_part = <<"e","s","c","a","p","e">> -> k.code = "Esc"
               [] key_part = <<"t","a","b">> -> k.code = "Tab"
               [] key_part = <<"b","a","c","k","s","p","a","c","e">> ->
                      k.code = "Backspace"
               [] key_part = <<"u","p">> -> k.code = "Up"
               [] key_part = <<"d","o","w","n">> -> k.code = "Down"
               [] key_part = <<"l","e","f","t">> -> k.code = "Left"
               [] key_part = <<"r","i","g","h","t">> -> k.code = "Right"
               [] key_part = <<"s","p","a","c","e">> ->
                      k.code = "Char" /\ k.ch = " "
               [] OTHER -> Len(key_part) = 1 /\ k.code = "Char" /\ k.ch = key_part[1]

\* Keybindings::default
Keybindings ==
    [up           |-> << <<"k">>, <<"U","p">> >>,
     down         |-> << <<"j">>, <<"D","o","w","n">> >>,
     select       |-> << <<"E","n","t","e","r">> >>,
     back         |-> << <<"B","a","c","k","s","p","a","c","e">>, <<"E","s","c">> >>,
     quit         |-> << <<"q">>, <<"E","s","c">> >>,
     search       |-> << <<"s">>, <<"/">> >>,
     toggle_focus |-> << <<"T","a","b">> >>,
     help         |-> << <<"?">> >>,
     filter       |-> << <<"f">> >>,
     next         |-> << <<"n">> >>,
     previous     |-> << <<"p">> >>,
     replay       |-> << <<"r">> >>,
     episodes     |-> << <<"e">> >>,
     new_search   |-> << <<"s">>, <<"n">> >>]

\* Keybindings::matches: any binding of the list matches the key.
matches(bindings, k) ==
    \E i \in 1..Len(bindings) : KeyBinding_matches(bindings[i], k)

\* ---------------------------------------------------------------- options
\* Option<T>
None    == [some |-> FALSE]
Some(x) == [some |-> TRUE, v |-> x]

\* ListState::selected() = None
NoSel == -1

\* Option<usize>::unwrap_or(0)
unwrap_or0(sel) == IF sel = NoSel THEN 0 ELSE sel

\* ---------------------------------------------------------------- actions
\* tui::types::Action.  q carries the query of Search, i the index of the Select
\* actions and of ContinueFromHistory, i and j the bounds of BatchRange.
Act(t, q, i, j) == [type |-> t, q |-> q, i |-> i, j |-> j]

ActNone                == Act("None", <<>>, 0, 0)
ActQuit                == Act("Quit", <<>>, 0, 0)
ActSearch(q)           == Act("Search", q, 0, 0)
ActSelectShow(i)       == Act("SelectShow", <<>>, i, 0)
ActSelectEpisode(i)    == Act("SelectEpisode", <<>>, i, 0)
ActSelectQuality(i)    == Act("SelectQuality", <<>>, i, 0)
ActNext                == Act("Next", <<>>, 0, 0)
ActPrevious            == Act("Previous", <<>>, 0, 0)
ActReplay              == Act("Replay", <<>>, 0, 0)
ActBackToEpisodes      == Act("BackToEpisodes", <<>>, 0, 0)
ActContinueFromHistory(i) == Act("ContinueFromHistory", <<>>, i, 0)
ActNewSearch           == Act("NewSearch", <<>>, 0, 0)
ActBatchAll            == Act("BatchAll", <<>>, 0, 0)
\* Variant: the bounds of the range are carried in the other order.
ActBatchRange_swapped(s, e) == Act("BatchRange", <<>>, e, s)

ActBatchRange(s, e)    == Act("BatchRange", <<>>, s, e)
ActBatchSingle         == Act("BatchSingle", <<>>, 0, 0)

\* What a handler gives back: the App after it ran and the Action it returned.
Ret(a, act) == [app |-> a, action |-> act]

\* ------------------------------------------------------------------- App
\* An error or status text: the fixed text and the number formatted into it (0
\* when the text has none).
Msg(text, n) == [text |-> text, n |-> n]

\* App::new.  history_records is filled by App::set_history right after
\* construction (main.rs 325-337), which is folded in here.  The fields that only
\* feed the renderer (loading_message, colors, the download modal) are left out.
App_new(mode, quality, download_mode, records) ==
    [screen                |-> "Startup",
     focus                 |-> "Main",
     should_quit           |-> FALSE,
     search_input          |-> <<>>,
     search_focused        |-> FALSE,
     shows                 |-> <<>>,
     selected_show         |-> None,
     episodes              |-> <<>>,
     current_episode       |-> None,
     sources               |-> <<>>,
     selected_source       |-> None,
     show_list_state       |-> NoSel,
     episode_list_state    |-> NoSel,
     quality_list_state    |-> NoSel,
     playback_list_state   |-> NoSel,
     history_records       |-> records,
     history_list_state    |-> IF Len(records) > 0 THEN 0 ELSE NoSel,
     startup_list_state    |-> 0,
     batch_list_state      |-> NoSel,
     mode                  |-> mode,
     quality               |-> quality,
     status_message        |-> None,
     error_message         |-> None,
     download_mode         |-> download_mode,
     range_input           |-> <<>>,
     range_input_mode      |-> FALSE,
     show_help             |-> FALSE,
     episode_filter        |-> <<>>,
     episode_filter_active |-> FALSE,
     batch_confirm_mode    |-> FALSE,
     pending_batch_action  |-> None]

\* App::set_error
set_error(a, text, n) == [a EXCEPT !.error_message = Some(Msg(text, n))]

\* App::clear_error
clear_error(a) == [a EXCEPT !.error_message = None]

\* App::set_status
set_status(a, text) == [a EXCEPT !.status_message = Some(Msg(text, 0))]

\* App::set_loading
set_loading(a) == [a EXCEPT !.screen = "Loading"]

\* App::set_shows
set_shows(a, shows) ==
    [a EXCEPT !.shows = shows, !.show_list_state = 0, !.screen = "ShowList"]

\* App::set_episodes
set_episodes(a, episodes) ==
    [a EXCEPT !.episodes = episodes, !.episode_list_state = 0,
              !.screen = "EpisodeList"]

\* App::show_playback_menu
show_playback_menu(a) ==
    [a EXCEPT !.playback_list_state = 0, !.screen = "Playback"]

\* App::show_batch_menu
show_batch_menu(a) == [a EXCEPT !.batch_list_state = 0, !.screen = "BatchSelect"]

\* The elements of a sequence.
Elems(s) == {s[i] : i \in 1..Len(s)}

\* Iterator::filter: the subsequence of s whose elements are in the set kept
\* (the elements the closure accepts), in order.
Filter(s, kept) == SelectSeq(s, LAMBDA x : x \in kept)

\* Iterator::position: the 0-based index of the first element in the set wanted
\* (the elements the closure accepts), NoSel when there is none.
position(s, wanted) ==
    IF \E i \in 1..Len(s) : s[i] \in wanted
    THEN (CHOOSE i \in 1..Len(s) : s[i] \in wanted /\ \A j \in 1..(i - 1) : s[j] \notin wanted) - 1
    ELSE NoSel

\* Variant: every episode is in the view, whatever the filter.
get_filtered_episodes_all(a) == a.episodes

\* App::get_filtered_episodes
get_filtered_episodes(a) ==
    IF Len(a.episode_filter) = 0 THEN a.episodes
    ELSE LET filter_lower == to_lowercase(a.episode_filter)
             keep(e) ==
                 \/ contains(to_string(e.number), a.episode_filter)
                 \/ (e.title.some /\ contains(to_lowercase(e.title.v), filter_lower))
         IN  Filter(a.episodes, {el \in Elems(a.episodes) : keep(el)})

\* Variant: Next episode is offered whatever the position of the current episode.
get_playback_options_always_next(a) ==
    LET ep          == a.current_episode
        same(e)     == e.number = ep.v.number
        current_idx == position(a.episodes, {el \in Elems(a.episodes) : same(el)})
        has_prev    == current_idx # NoSel /\ current_idx > 0
        forEpisode  ==
            IF ep.some
            THEN <<"Next episode", "Replay">>
                 \o (IF has_prev THEN <<"Previous episode">> ELSE <<>>)
            ELSE <<>>
    IN  forEpisode \o <<"Select episode", "Quit">>

\* App::get_playback_options
get_playback_options(a) ==
    LET ep          == a.current_episode
        same(e)     == e.number = ep.v.number
        current_idx == position(a.episodes, {el \in Elems(a.episodes) : same(el)})
        has_next    == current_idx # NoSel /\ current_idx + 1 < Len(a.episodes)
        has_prev    == current_idx # NoSel /\ current_idx > 0
        forEpisode  ==
            IF ep.some
            THEN (IF has_next THEN <<"Next episode">> ELSE <<>>)
                 \o <<"Replay">>
                 \o (IF has_prev THEN <<"Previous episode">> ELSE <<>>)
            ELSE <<>>
    IN  forEpisode \o <<"Select episode", "Quit">>

\* ------------------------------------------------------------ input router
kb == Keybindings

\* Variant: the search bar hands the toggle-focus binding on to the global keys.
handle_search_bar_input_tab(a, k) ==
    CASE k.code = "Enter" ->
            IF Len(a.search_input) # 0
            THEN Ret([a EXCEPT !.search_input = <<>>, !.search_focused = FALSE,
                               !.focus = "Main"],
                     ActSearch(a.search_input))
            ELSE Ret([a EXCEPT !.search_focused = FALSE], ActNone)
      [] k.code = "Char" ->
            Ret([a EXCEPT !.search_input = Push(a.search_input, k.ch)], ActNone)
      [] k.code = "Backspace" ->
            Ret([a EXCEPT !.search_input = Pop(a.search_input)], ActNone)
      [] k.code = "Esc" ->
            Ret([a EXCEPT !.search_input = <<>>, !.search_focused = FALSE], ActNone)
      [] matches(kb.toggle_focus, k) ->
            Ret([a EXCEPT !.focus = IF a.focus = "Sidebar" THEN "Main" ELSE "Sidebar"],
                ActNone)
      [] OTHER -> Ret(a, ActNone)

\* Variant: the search bar appends only characters typed without a modifier.
handle_search_bar_input_plain(a, k) ==
    CASE k.code = "Enter" ->
            IF Len(a.search_input) # 0
            THEN Ret([a EXCEPT !.search_input = <<>>, !.search_focused = FALSE,
                               !.focus = "Main"],
                     ActSearch(a.search_input))
            ELSE Ret([a EXCEPT !.search_focused = FALSE], ActNone)
      [] k.code = "Char" /\ ~k.ctrl /\ ~k.alt ->
            Ret([a EXCEPT !.search_input = Push(a.search_input, k.ch)], ActNone)
      [] k.code = "Backspace" ->
            Ret([a EXCEPT !.search_input = Pop(a.search_input)], ActNone)
      [] k.code = "Esc" ->
            Ret([a EXCEPT !.search_input = <<>>, !.search_focused = FALSE], ActNone)
      [] OTHER -> Ret(a, ActNone)

\* Variant: Enter emits the query but leaves it in the buffer.
handle_search_bar_input_keeps_text(a, k) ==
    CASE k.code = "Enter" ->
            IF Len(a.search_input) # 0
            THEN Ret([a EXCEPT !.search_focused = FALSE, !.focus = "Main"],
                     ActSearch(a.search_input))
            ELSE Ret([a EXCEPT !.search_focused = FALSE], ActNone)
      [] k.code = "Char" ->
            Ret([a EXCEPT !.search_input = Push(a.search_input, k.ch)], ActNone)
      [] k.code = "Backspace" ->
            Ret([a EXCEPT !.search_input = Pop(a.search_input)], ActNone)
      [] k.code = "Esc" ->
            Ret([a EXCEPT !.search_input = <<>>, !.search_focused = FALSE], ActNone)
      [] OTHER -> Ret(a, ActNone)

\* App::handle_search_bar_input
handle_search_bar_input(a, k) ==
    CASE k.code = "Enter" ->
            IF Len(a.search_input) # 0
            THEN Ret([a EXCEPT !.search_input = <<>>, !.search_focused = FALSE,
                               !.focus = "Main"],
                     ActSearch(a.search_input))
            ELSE Ret([a EXCEPT !.search_focused = FALSE], ActNone)
      [] k.code = "Char" ->
            Ret([a EXCEPT !.search_input = Push(a.search_input, k.ch)], ActNone)
      [] k.code = "Backspace" ->
            Ret([a EXCEPT !.search_input = Pop(a.search_input)], ActNone)
      [] k.code = "Esc" ->
            Ret([a EXCEPT !.search_input = <<>>, !.search_focused = FALSE], ActNone)
      [] OTHER -> Ret(a, ActNone)

\* App::handle_sidebar_input
handle_sidebar_input_wraps(a, k) ==
    LET i == unwrap_or0(a.history_list_state)
        n == Len(a.history_records)
    IN  IF matches(kb.up, k)
        THEN Ret([a EXCEPT !.history_list_state = IF i > 0 THEN i - 1 ELSE n - 1],
                 ActNone)
        ELSE IF matches(kb.down, k)
        THEN Ret([a EXCEPT !.history_list_state = IF i < n - 1 THEN i + 1 ELSE 0],
                 ActNone)
        ELSE IF matches(kb.select, k)
        THEN Ret([a EXCEPT !.focus = "Main"],
                 ActContinueFromHistory(a.history_list_state))
        ELSE IF matches(kb.quit, k)
        THEN Ret([a EXCEPT !.should_quit = TRUE], ActQuit)
        ELSE Ret(a, ActNone)

\* App::handle_sidebar_input
handle_sidebar_input(a, k) ==
    LET i == unwrap_or0(a.history_list_state)
    IN  IF matches(kb.up, k)
        THEN Ret(IF i > 0 THEN [a EXCEPT !.history_list_state = i - 1] ELSE a,
                 ActNone)
        ELSE IF matches(kb.down, k)
        THEN Ret(IF i < saturating_sub1(Len(a.history_records))
                 THEN [a EXCEPT !.history_list_state = i + 1] ELSE a,
                 ActNone)
        ELSE IF matches(kb.select, k)
        THEN IF a.history_list_state # NoSel
                /\ a.history_list_state < Len(a.history_records)
             THEN Ret([a EXCEPT !.focus = "Main"],
                      ActContinueFromHistory(a.history_list_state))
             ELSE Ret(a, ActNone)
        ELSE IF matches(kb.quit, k)
        THEN Ret([a EXCEPT !.should_quit = TRUE], ActQuit)
        ELSE Ret(a, ActNone)


handle_startup_input_unclamped(a, k) ==
    LET empty == Len(a.history_records) = 0
        si    == unwrap_or0(a.startup_list_state)
        hi    == unwrap_or0(a.history_list_state)
    IN  IF matches(kb.up, k)
        THEN Ret(IF empty
                 THEN (IF si > 0 THEN [a EXCEPT !.startup_list_state = si - 1] ELSE a)
                 ELSE (IF hi > 0 THEN [a EXCEPT !.history_list_state = hi - 1] ELSE a),
                 ActNone)
        ELSE IF matches(kb.down, k)
        THEN Ret(IF empty
                 THEN (IF si < 1 THEN [a EXCEPT !.startup_list_state = si + 1] ELSE a)
                 ELSE (IF hi < Len(a.history_records)
                       THEN [a EXCEPT !.history_list_state = hi + 1] ELSE a),
                 ActNone)
        ELSE IF matches(kb.select, k)
        THEN IF empty THEN Ret(a, ActNewSearch)
             ELSE IF a.history_list_state # NoSel
             THEN Ret(a, ActContinueFromHistory(a.history_list_state))
             ELSE Ret(a, ActNewSearch)
        ELSE IF matches(kb.new_search, k)
        THEN Ret([a EXCEPT !.screen = "Search"], ActNone)
        ELSE IF matches(kb.quit, k)
        THEN Ret([a EXCEPT !.should_quit = TRUE], ActQuit)
        ELSE Ret(a, ActNone)

\* App::handle_startup_input
handle_startup_input(a, k) ==
    LET empty == Len(a.history_records) = 0
        si    == unwrap_or0(a.startup_list_state)
        hi    == unwrap_or0(a.history_list_state)
    IN  IF matches(kb.up, k)
        THEN Ret(IF empty
                 THEN (IF si > 0 THEN [a EXCEPT !.startup_list_state = si - 1] ELSE a)
                 ELSE (IF hi > 0 THEN [a EXCEPT !.history_list_state = hi - 1] ELSE a),
                 ActNone)
        ELSE IF matches(kb.down, k)
        THEN Ret(IF empty
                 THEN (IF si < 1 THEN [a EXCEPT !.startup_list_state = si + 1] ELSE a)
                 ELSE (IF hi < saturating_sub1(Len(a.history_records))
                       THEN [a EXCEPT !.history_list_state = hi + 1] ELSE a),
                 ActNone)
        ELSE IF matches(kb.select, k)
        THEN IF empty THEN Ret(a, ActNewSearch)
             ELSE IF a.history_list_state # NoSel
             THEN Ret(a, ActContinueFromHistory(a.history_list_state))
             ELSE Ret(a, ActNewSearch)
        ELSE IF matches(kb.new_search, k)
        THEN Ret([a EXCEPT !.screen = "Search"], ActNone)
        ELSE IF matches(kb.quit, k)
        THEN Ret([a EXCEPT !.should_quit = TRUE], ActQuit)
        ELSE Ret(a, ActNone)

\* App::handle_search_input
handle_search_input(a, k) ==
    CASE k.code = "Enter" ->
            IF Len(a.search_input) # 0
            THEN Ret([a EXCEPT !.search_input = <<>>], ActSearch(a.search_input))
            ELSE Ret(a, ActNone)
      [] k.code = "Char" ->
            Ret([a EXCEPT !.search_input = Push(a.search_input, k.ch)], ActNone)
      [] k.code = "Backspace" ->
            Ret([a EXCEPT !.search_input = Pop(a.search_input)], ActNone)
      [] k.code = "Esc" ->
            Ret([a EXCEPT !.search_input = <<>>,
                          !.screen = IF Len(a.shows) # 0 THEN "ShowList"
                                     ELSE "Startup"],
                ActNone)
      [] OTHER -> Ret(a, ActNone)

\* App::handle_show_list_input
handle_show_list_input(a, k) ==
    LET i == unwrap_or0(a.show_list_state)
    IN  IF matches(kb.up, k)
        THEN Ret(IF i > 0 THEN [a EXCEPT !.show_list_state = i - 1] ELSE a, ActNone)
        ELSE IF matches(kb.down, k)
        THEN Ret(IF i < saturating_sub1(Len(a.shows))
                 THEN [a EXCEPT !.show_list_state = i + 1] ELSE a,
                 ActNone)
        ELSE IF matches(kb.select, k)
        THEN IF a.show_list_state # NoSel
             THEN Ret(a, ActSelectShow(a.show_list_state))
             ELSE Ret(a, ActNone)
        ELSE IF matches(kb.search, k)
        THEN Ret([a EXCEPT !.screen = "Search"], ActNone)
        ELSE IF matches(kb.quit, k)
        THEN Ret([a EXCEPT !.should_quit = TRUE], ActQuit)
        ELSE Ret(a, ActNone)

\* App::handle_episode_list_input
handle_episode_list_input(a, k) ==
    LET filtered     == get_filtered_episodes(a)
        filtered_len == Len(filtered)
        i            == unwrap_or0(a.episode_list_state)
        sel          == a.episode_list_state
    IN  IF matches(kb.up, k)
        THEN Ret(IF i > 0 THEN [a EXCEPT !.episode_list_state = i - 1] ELSE a,
                 ActNone)
        ELSE IF matches(kb.down, k)
        THEN Ret(IF i < saturating_sub1(filtered_len)
                 THEN [a EXCEPT !.episode_list_state = i + 1] ELSE a,
                 ActNone)
        ELSE IF matches(kb.select, k)
        THEN IF sel # NoSel /\ sel < Len(filtered)
             THEN LET episode_num  == filtered[sel + 1].number
                      same(e)      == e.number = episode_num
                      original_idx == position(a.episodes, {el \in Elems(a.episodes) : same(el)})
                  IN  IF original_idx # NoSel
                      THEN Ret(a, ActSelectEpisode(original_idx))
                      ELSE Ret(a, ActNone)
             ELSE Ret(a, ActNone)
        ELSE IF matches(kb.filter, k)
        THEN Ret([a EXCEPT !.episode_filter_active = TRUE], ActNone)
        ELSE IF matches(kb.search, k)
        THEN Ret([a EXCEPT !.screen = "Search"], ActNone)
        ELSE IF matches(kb.back, k)
        THEN IF Len(a.episode_filter) # 0
             THEN Ret([a EXCEPT !.episode_filter = <<>>, !.episode_list_state = 0],
                      ActNone)
             ELSE Ret([a EXCEPT !.screen = "ShowList"], ActNone)
        ELSE IF matches(kb.quit, k)
        THEN Ret([a EXCEPT !.should_quit = TRUE], ActQuit)
        ELSE Ret(a, ActNone)

\* Variant: the episode filter lets the search binding focus the search bar.
handle_episode_filter_input_search(a, k) ==
    CASE k.code \in {"Enter", "Esc"} ->
            LET off == [a EXCEPT !.episode_filter_active = FALSE]
            IN  Ret(IF Len(get_filtered_episodes(off)) # 0
                    THEN [off EXCEPT !.episode_list_state = 0] ELSE off,
                    ActNone)
      [] matches(kb.search, k) -> Ret([a EXCEPT !.search_focused = TRUE], ActNone)
      [] k.code = "Char" ->
            Ret([a EXCEPT !.episode_filter = Push(a.episode_filter, k.ch),
                          !.episode_list_state = 0],
                ActNone)
      [] k.code = "Backspace" ->
            Ret([a EXCEPT !.episode_filter = Pop(a.episode_filter),
                          !.episode_list_state = 0],
                ActNone)
      [] OTHER -> Ret(a, ActNone)

\* Variant: Backspace leaves the episode cursor where it is.
handle_episode_filter_input_keeps_cursor(a, k) ==
    CASE k.code \in {"Enter", "Esc"} ->
            LET off == [a EXCEPT !.episode_filter_active = FALSE]
            IN  Ret(IF Len(get_filtered_episodes(off)) # 0
                    THEN [off EXCEPT !.episode_list_state = 0] ELSE off,
                    ActNone)
      [] k.code = "Char" ->
            Ret([a EXCEPT !.episode_filter = Push(a.episode_filter, k.ch),
                          !.episode_list_state = 0],
                ActNone)
      [] k.code = "Backspace" ->
            Ret([a EXCEPT !.episode_filter = Pop(a.episode_filter)], ActNone)
      [] OTHER -> Ret(a, ActNone)

\* App::handle_episode_filter_input
handle_episode_filter_input(a, k) ==
    CASE k.code \in {"Enter", "Esc"} ->
            LET off == [a EXCEPT !.episode_filter_active = FALSE]
            IN  Ret(IF Len(get_filtered_episodes(off)) # 0
                    THEN [off EXCEPT !.episode_list_state = 0] ELSE off,
                    ActNone)
      [] k.code = "Char" ->
            Ret([a EXCEPT !.episode_filter = Push(a.episode_filter, k.ch),
                          !.episode_list_state = 0],
                ActNone)
      [] k.code = "Backspace" ->
            Ret([a EXCEPT !.episode_filter = Pop(a.episode_filter),
                          !.episode_list_state = 0],
                ActNone)
      [] OTHER -> Ret(a, ActNone)

\* App::handle_quality_input
handle_quality_input(a, k) ==
    LET i == unwrap_or0(a.quality_list_state)
    IN  IF matches(kb.up, k)
        THEN Ret(IF i > 0 THEN [a EXCEPT !.quality_list_state = i - 1] ELSE a,
                 ActNone)
        ELSE IF matches(kb.down, k)
        THEN Ret(IF i < saturating_sub1(Len(a.sources))
                 THEN [a EXCEPT !.quality_list_state = i + 1] ELSE a,
                 ActNone)
        ELSE IF matches(kb.select, k)
        THEN IF a.quality_list_state # NoSel
             THEN Ret(a, ActSelectQuality(a.quality_list_state))
             ELSE Ret(a, ActNone)
        ELSE IF matches(kb.back, k)
        THEN Ret([a EXCEPT !.screen = "EpisodeList"], ActNone)
        ELSE IF matches(kb.quit, k)
        THEN Ret([a EXCEPT !.should_quit = TRUE], ActQuit)
        ELSE Ret(a, ActNone)

\* App::handle_playback_input
handle_playback_input(a, k) ==
    LET options == get_playback_options(a)
        i       == unwrap_or0(a.playback_list_state)
        sel     == a.playback_list_state
    IN  IF matches(kb.up, k)
        THEN Ret(IF i > 0 THEN [a EXCEPT !.playback_list_state = i - 1] ELSE a,
                 ActNone)
        ELSE IF matches(kb.down, k)
        THEN Ret(IF i < saturating_sub1(Len(options))
                 THEN [a EXCEPT !.playback_list_state = i + 1] ELSE a,
                 ActNone)
        ELSE IF matches(kb.select, k)
        THEN IF sel # NoSel /\ sel < Len(options)
             THEN CASE options[sel + 1] = "Next episode" -> Ret(a, ActNext)
                    [] options[sel + 1] = "Replay" -> Ret(a, ActReplay)
                    [] options[sel + 1] = "Previous episode" -> Ret(a, ActPrevious)
                    [] options[sel + 1] = "Select episode" ->
                           Ret(a, ActBackToEpisodes)
                    [] options[sel + 1] = "Quit" ->
                           Ret([a EXCEPT !.should_quit = TRUE], ActQuit)
                    [] OTHER -> Ret(a, ActNone)
             ELSE Ret(a, ActNone)
        ELSE IF matches(kb.next, k) THEN Ret(a, ActNext)
        ELSE IF matches(kb.previous, k) THEN Ret(a, ActPrevious)
        ELSE IF matches(kb.replay, k) THEN Ret(a, ActReplay)
        ELSE IF matches(kb.episodes, k) THEN Ret(a, ActBackToEpisodes)
        ELSE IF matches(kb.quit, k)
        THEN Ret([a EXCEPT !.should_quit = TRUE], ActQuit)
        ELSE Ret(a, ActNone)

handle_batch_input_confirms_single(a, k) ==
    LET i == unwrap_or0(a.batch_list_state)
    IN  IF matches(kb.up, k)
        THEN Ret(IF i > 0 THEN [a EXCEPT !.batch_list_state = i - 1] ELSE a, ActNone)
        ELSE IF matches(kb.down, k)
        THEN Ret([a EXCEPT !.batch_list_state = i + 1], ActNone)
        ELSE IF matches(kb.select, k)
        THEN CASE a.batch_list_state = 0 ->
                     Ret([a EXCEPT !.pending_batch_action = Some(ActBatchAll),
                                   !.batch_confirm_mode = TRUE],
                         ActNone)
               [] a.batch_list_state = 1 ->
                     Ret([a EXCEPT !.range_input_mode = TRUE], ActNone)
               [] a.batch_list_state = 2 ->
                     Ret([a EXCEPT !.pending_batch_action = Some(ActBatchSingle),
                                   !.batch_confirm_mode = TRUE],
                         ActNone)
               [] OTHER -> Ret(a, ActNone)
        ELSE IF matches(kb.back, k)
        THEN Ret([a EXCEPT !.screen = "EpisodeList"], ActNone)
        ELSE IF matches(kb.quit, k)
        THEN Ret([a EXCEPT !.should_quit = TRUE], ActQuit)
        ELSE Ret(a, ActNone)

\* App::handle_batch_input
handle_batch_input(a, k) ==
    LET i == unwrap_or0(a.batch_list_state)
    IN  IF matches(kb.up, k)
        THEN Ret(IF i > 0 THEN [a EXCEPT !.batch_list_state = i - 1] ELSE a, ActNone)
        ELSE IF matches(kb.down, k)
        THEN Ret(IF i < 2 THEN [a EXCEPT !.batch_list_state = i + 1] ELSE a, ActNone)
        ELSE IF matches(kb.select, k)
        THEN CASE a.batch_list_state = 0 ->
                     Ret([a EXCEPT !.pending_batch_action = Some(ActBatchAll),
                                   !.batch_confirm_mode = TRUE],
                         ActNone)
               [] a.batch_list_state = 1 ->
                     Ret([a EXCEPT !.range_input_mode = TRUE, !.range_input = <<>>],
                         ActNone)
               [] a.batch_list_state = 2 -> Ret(a, ActBatchSingle)
               [] OTHER -> Ret(a, ActNone)
        ELSE IF matches(kb.back, k)
        THEN Ret([a EXCEPT !.screen = "EpisodeList"], ActNone)
        ELSE IF matches(kb.quit, k)
        THEN Ret([a EXCEPT !.should_quit = TRUE], ActQuit)
        ELSE Ret(a, ActNone)

\* Iterator::max / Iterator::min over the episode numbers, with the unwrap_or
\* default for an empty list.
max_number(episodes, default) ==
    IF Len(episodes) = 0 THEN default
    ELSE CHOOSE n \in {episodes[i].number : i \in 1..Len(episodes)} :
             \A i \in 1..Len(episodes) : episodes[i].number <= n

min_number(episodes, default) ==
    IF Len(episodes) = 0 THEN default
    ELSE CHOOSE n \in {episodes[i].number : i \in 1..Len(episodes)} :
             \A i \in 1..Len(episodes) : episodes[i].number >= n

\* Variant: the range is not checked for start <= end.
handle_range_input_unordered(a, k) ==
    CASE k.code = "Enter" ->
            LET parts  == split(a.range_input, "-")
                pstart == parse_int(trim(parts[1]))
                pend   == parse_int(trim(parts[2]))
                start  == pstart.v
                end    == pend.v
                max_episode == max_number(a.episodes, 0)
                min_episode == min_number(a.episodes, 1)
            IN  IF Len(parts) = 2 /\ pstart.ok /\ pend.ok
                THEN IF start < 1
                     THEN Ret(set_error(a, "Invalid range: start must be >= 1", 0),
                              ActNone)
                     ELSE IF start > max_episode \/ end > max_episode
                     THEN Ret(set_error(a, "Invalid range: episodes only go up to {}",
                                        max_episode),
                              ActNone)
                     ELSE IF start < min_episode
                     THEN Ret(set_error(a, "Invalid range: episodes start at {}",
                                        min_episode),
                              ActNone)
                     ELSE Ret([a EXCEPT !.range_input_mode = FALSE,
                                        !.pending_batch_action =
                                            Some(ActBatchRange(start, end)),
                                        !.batch_confirm_mode = TRUE],
                              ActNone)
                ELSE Ret(set_error(a,
                             "Invalid range format. Use: start-end (e.g., 1-12)", 0),
                         ActNone)
      [] k.code = "Char" /\ (is_ascii_digit(k.ch) \/ k.ch = "-") ->
            Ret([a EXCEPT !.range_input = Push(a.range_input, k.ch)], ActNone)
      [] k.code = "Backspace" ->
            Ret([a EXCEPT !.range_input = Pop(a.range_input)], ActNone)
      [] k.code = "Esc" ->
            Ret([a EXCEPT !.range_input_mode = FALSE, !.range_input = <<>>], ActNone)
      [] OTHER -> Ret(a, ActNone)

\* App::handle_range_input
handle_range_input(a, k) ==
    CASE k.code = "Enter" ->
            LET parts  == split(a.range_input, "-")
                pstart == parse_int(trim(parts[1]))
                pend   == parse_int(trim(parts[2]))
                start  == pstart.v
                end    == pend.v
                max_episode == max_number(a.episodes, 0)
                min_episode == min_number(a.episodes, 1)
            IN  IF Len(parts) = 2 /\ pstart.ok /\ pend.ok
                THEN IF start > end
                     THEN Ret(set_error(a, "Invalid range: start must be <= end", 0),
                              ActNone)
                     ELSE IF start < 1
                     THEN Ret(set_error(a, "Invalid range: start must be >= 1", 0),
                              ActNone)
                     ELSE IF start > max_episode \/ end > max_episode
                     THEN Ret(set_error(a, "Invalid range: episodes only go up to {}",
                                        max_episode),
                              ActNone)
                     ELSE IF start < min_episode
                     THEN Ret(set_error(a, "Invalid range: episodes start at {}",
                                        min_episode),
                              ActNone)
                     ELSE Ret([a EXCEPT !.range_input_mode = FALSE,
                                        !.pending_batch_action =
                                            Some(ActBatchRange(start, end)),
                                        !.batch_confirm_mode = TRUE],
                              ActNone)
                ELSE Ret(set_error(a,
                             "Invalid range format. Use: start-end (e.g., 1-12)", 0),
                         ActNone)
      [] k.code = "Char" /\ (is_ascii_digit(k.ch) \/ k.ch = "-") ->
            Ret([a EXCEPT !.range_input = Push(a.range_input, k.ch)], ActNone)
      [] k.code = "Backspace" ->
            Ret([a EXCEPT !.range_input = Pop(a.range_input)], ActNone)
      [] k.code = "Esc" ->
            Ret([a EXCEPT !.range_input_mode = FALSE, !.range_input = <<>>], ActNone)
      [] OTHER -> Ret(a, ActNone)

\* Variant: an affirmative key emits the pending action and stays in the mode.
handle_batch_confirm_stays(a, k) ==
    CASE (k.code = "Char" /\ k.ch \in {"y", "Y"}) \/ k.code = "Enter" ->
            Ret(a, IF a.pending_batch_action.some THEN a.pending_batch_action.v
                   ELSE ActNone)
      [] (k.code = "Char" /\ k.ch \in {"n", "N"}) \/ k.code = "Esc" ->
            Ret([a EXCEPT !.batch_confirm_mode = FALSE, !.pending_batch_action = None],
                ActNone)
      [] OTHER -> Ret(a, ActNone)

\* Variant: a negative key leaves the mode and keeps the pending action.
handle_batch_confirm_keeps_pending(a, k) ==
    CASE (k.code = "Char" /\ k.ch \in {"y", "Y"}) \/ k.code = "Enter" ->
            Ret([a EXCEPT !.batch_confirm_mode = FALSE, !.pending_batch_action = None],
                IF a.pending_batch_action.some THEN a.pending_batch_action.v
                ELSE ActNone)
      [] (k.code = "Char" /\ k.ch \in {"n", "N"}) \/ k.code = "Esc" ->
            Ret([a EXCEPT !.batch_confirm_mode = FALSE], ActNone)
      [] OTHER -> Ret(a, ActNone)

\* Variant: an affirmative key emits a copy of the pending action (clone, not take).
handle_batch_confirm_clones(a, k) ==
    CASE (k.code = "Char" /\ k.ch \in {"y", "Y"}) \/ k.code = "Enter" ->
            Ret([a EXCEPT !.batch_confirm_mode = FALSE],
                IF a.pending_batch_action.some THEN a.pending_batch_action.v
                ELSE ActNone)
      [] (k.code = "Char" /\ k.ch \in {"n", "N"}) \/ k.code = "Esc" ->
            Ret([a EXCEPT !.batch_confirm_mode = FALSE, !.pending_batch_action = None],
                ActNone)
      [] OTHER -> Ret(a, ActNone)

\* App::handle_batch_confirm
handle_batch_confirm(a, k) ==
    CASE (k.code = "Char" /\ k.ch \in {"y", "Y"}) \/ k.code = "Enter" ->
            Ret([a EXCEPT !.batch_confirm_mode = FALSE, !.pending_batch_action = None],
                IF a.pending_batch_action.some THEN a.pending_batch_action.v
                ELSE ActNone)
      [] (k.code = "Char" /\ k.ch \in {"n", "N"}) \/ k.code = "Esc" ->
            Ret([a EXCEPT !.batch_confirm_mode = FALSE, !.pending_batch_action = None],
                ActNone)
      [] OTHER -> Ret(a, ActNone)

handle_loading_input_flag_only(a, k) ==
    IF matches(kb.quit, k) THEN Ret([a EXCEPT !.should_quit = TRUE], ActNone)
    ELSE Ret(a, ActNone)

\* The Screen::Loading arm of App::handle_input
handle_loading_input(a, k) ==
    IF matches(kb.quit, k) THEN Ret([a EXCEPT !.should_quit = TRUE], ActQuit)
    ELSE Ret(a, ActNone)

\* Variant: only Ctrl+C is a force-quit chord.
is_force_quit_ctrl_c(k) == k.ctrl /\ k.code = "Char" /\ k.ch = "c"

\* The force-quit test at the head of App::handle_input
is_force_quit(k) == k.ctrl /\ k.code = "Char" /\ k.ch \in {"c", "q"}

\* Variant: with the help overlay open the quit binding quits.
handle_help_modal_quits(a, k) ==
    IF matches(kb.quit, k) THEN Ret([a EXCEPT !.should_quit = TRUE], ActQuit)
    ELSE Ret(IF k.code = "Esc" \/ matches(kb.help, k)
             THEN [a EXCEPT !.show_help = FALSE] ELSE a,
             ActNone)

\* The help-modal arm of App::handle_input
handle_help_modal(a, k) ==
    Ret(IF k.code = "Esc" \/ matches(kb.help, k) \/ matches(kb.quit, k)
        THEN [a EXCEPT !.show_help = FALSE] ELSE a,
        ActNone)


toggle_focus_resets(a) ==
    LET focus == IF a.focus = "Sidebar" THEN "Main" ELSE "Sidebar"
    IN  [a EXCEPT !.focus = focus,
                  !.history_list_state = IF focus = "Sidebar" THEN 0 ELSE @]

\* The toggle-focus arm of App::handle_input.
toggle_focus(a) ==
    LET focus == IF a.focus = "Sidebar" THEN "Main" ELSE "Sidebar"
    IN  [a EXCEPT !.focus = focus,
                  !.history_list_state =
                      IF focus = "Sidebar" /\ a.history_list_state = NoSel
                         /\ Len(a.history_records) # 0
                      THEN 0 ELSE @]

\* App::handle_input
handle_input(a, k) ==
    IF is_force_quit(k) THEN Ret([a EXCEPT !.should_quit = TRUE], ActQuit)
    ELSE IF a.show_help THEN handle_help_modal(a, k)
    ELSE IF matches(kb.help, k) THEN Ret([a EXCEPT !.show_help = TRUE], ActNone)
    ELSE IF a.range_input_mode THEN handle_range_input(a, k)
    ELSE IF a.batch_confirm_mode THEN handle_batch_confirm(a, k)
    ELSE IF a.search_focused THEN handle_search_bar_input(a, k)
    ELSE IF a.episode_filter_active THEN handle_episode_filter_input(a, k)
    ELSE IF matches(kb.toggle_focus, k) THEN Ret(toggle_focus(a), ActNone)
    ELSE IF matches(kb.search, k) THEN Ret([a EXCEPT !.search_focused = TRUE], ActNone)
    ELSE IF a.focus = "Sidebar" THEN handle_sidebar_input(a, k)
    ELSE CASE a.screen = "Startup" -> handle_startup_input(a, k)
           [] a.screen = "Search" -> handle_search_input(a, k)
           [] a.screen = "ShowList" -> handle_show_list_input(a, k)
           [] a.screen = "EpisodeList" -> handle_episode_list_input(a, k)
           [] a.screen = "QualitySelect" -> handle_quality_input(a, k)
           [] a.screen = "Playback" -> handle_playback_input(a, k)
           [] a.screen = "BatchSelect" -> handle_batch_input(a, k)
           [] a.screen = "Loading" -> handle_loading_input(a, k)

\* -------------------------------------------------------- quality selector
\* Variant: the known-quality sources are left in the order of the input.
sort_by_quality_kept(s) == s

\* Vec::sort_by(|a, b| b.quality.cmp(&a.quality)): stable, descending by quality.
RECURSIVE sort_by_quality_desc(_)
sort_by_quality_desc(s) ==
    IF Len(s) <= 1 THEN s
    ELSE LET rest == sort_by_quality_desc(Tail(s))
             x    == Head(s)
             \* x stays ahead of the later elements of equal quality
             ahead(e) == e.quality > x.quality
             n    == Len(SelectSeq(rest, ahead))
         IN  SubSeq(rest, 1, n) \o <<x>> \o SubSeq(rest, n + 1, Len(rest))

\* choose_stream: Ok(source) or Err("No sources available").  v is the source
\* returned under two's-complement arithmetic; overflow says that an i32
\* operation in the closest-quality search overflowed on the way, where a build
\* with overflow checks panics instead of returning.
choose_stream(sources, quality) ==
    LET is_known(x)   == x.quality > 0
        is_unknown(x) == x.quality = 0
        known_quality   == sort_by_quality_desc(Filter(sources, {el \in Elems(sources) : is_known(el)}))
        unknown_quality == Filter(sources, {el \in Elems(sources) : is_unknown(el)})
        q      == to_lowercase(quality)
        target == parse_i32(q)
        exact(x) == x.quality = target.v
        diff(x)  == sub_i32(x.quality, target.v)
        dist(x)  == abs_i32(diff(x).v).v
        overflows(x) == diff(x).overflow \/ abs_i32(diff(x).v).overflow
        \* Iterator::min_by_key: the first of the elements with the least key
        closest  == CHOOSE i \in 1..Len(known_quality) :
                        /\ \A j \in 1..Len(known_quality) :
                               dist(known_quality[i]) <= dist(known_quality[j])
                        /\ \A j \in 1..(i - 1) :
                               dist(known_quality[j]) > dist(known_quality[i])
        Ok(x) == [ok |-> TRUE, v |-> x, overflow |-> FALSE]
    IN  IF Len(sources) = 0 THEN [ok |-> FALSE, overflow |-> FALSE]
        ELSE IF Len(sources) = 1 THEN Ok(sources[1])
        ELSE IF q = <<"b","e","s","t">>
        THEN IF Len(known_quality) > 0 THEN Ok(known_quality[1])
             ELSE IF Len(unknown_quality) > 0 THEN Ok(unknown_quality[1])
             ELSE Ok(sources[1])
        ELSE IF q = <<"w","o","r","s","t">>
        THEN IF Len(known_quality) > 0 THEN Ok(known_quality[Len(known_quality)])
             ELSE IF Len(unknown_quality) > 0 THEN Ok(unknown_quality[1])
             ELSE Ok(sources[1])
        ELSE IF target.ok
        THEN IF \E i \in 1..Len(known_quality) : exact(known_quality[i])
             THEN Ok(known_quality[position(known_quality, {el \in Elems(known_quality) : exact(el)}) + 1])
             ELSE IF Len(known_quality) > 0
             THEN [ok |-> TRUE, v |-> known_quality[closest],
                   overflow |-> \E i \in 1..Len(known_quality) :
                                    overflows(known_quality[i])]
             ELSE Ok(sources[1])
        ELSE Ok(sources[1])

\* ------------------------------------------------- external collaborators
\* The values the catalog, the file system and the downloader may answer with.
Show(id, name, n) == [id |-> id, name |-> name, available_episodes |-> n]

Episode(n) == [number |-> n, title |-> None]

EpisodeTitled(n, title) == [number |-> n, title |-> Some(title)]

StreamSource(quality, url) == [quality |-> quality, url |-> url]

ShowA == Show("a", "A", 2)

ShowB == Show("b", "B", 1)

\* search_shows: Ok(shows)
ShowResults == { <<>>, <<ShowA, ShowB>> }

\* fetch_episodes: Ok(episodes), in the order the catalog lists them
EpisodeResults ==
    { <<>>,
      <<Episode(2)>>,
      <<EpisodeTitled(2, <<"F","2">>), Episode(1)>> }

\* fetch_stream_sources: Ok(sources)
SourceResults ==
    { <<>>,
      <<StreamSource(0, "u0"), StreamSource(480, "u480"), StreamSource(720, "u720")>> }

\* A tuple of history_records, as main hands it to set_history:
\* (show_id, name, episode, mode)
HistoryRecord(id, name, episode, mode) ==
    [show_id |-> id, name |-> name, episode |-> episode, mode |-> mode]

\* Vec::sort_by_key(|e| e.number): stable, ascending by number.
RECURSIVE sort_by_number(_)
sort_by_number(s) ==
    IF Len(s) <= 1 THEN s
    ELSE LET rest == sort_by_number(Tail(s))
             x    == Head(s)
             ahead(e) == e.number < x.number
             n    == Len(SelectSeq(rest, ahead))
         IN  SubSeq(rest, 1, n) \o <<x>> \o SubSeq(rest, n + 1, Len(rest))

\* ------------------------------------------------------------ watch history
\* WatchRecord
WatchRecord(id, name, episode, mode, timestamp) ==
    [show_id |-> id, show_name |-> name, episode |-> episode, mode |-> mode,
     timestamp |-> timestamp]

\* WatchHistory::new: records is a HashMap from show_id to WatchRecord, a
\* function whose domain is the set of the show ids it holds.
WatchHistory_new == [x \in {} |-> WatchRecord("", "", 0, "", 0)]

\* HashMap::values
values(h) == {h[x] : x \in DOMAIN h}

update_if_later(h, id, name, episode, mode, now) ==
    IF id \in DOMAIN h /\ h[id].episode >= episode THEN h
    ELSE [x \in DOMAIN h \cup {id} |->
              IF x = id THEN WatchRecord(id, name, episode, mode, now) ELSE h[x]]

\* WatchHistory::update; now is what SystemTime::now() answers, in seconds since
\* the epoch.
update(h, id, name, episode, mode, now) ==
    [x \in DOMAIN h \cup {id} |->
         IF x = id THEN WatchRecord(id, name, episode, mode, now) ELSE h[x]]

\* The seconds the system clock may answer.  SystemTime is not monotonic: a later
\* call may answer an earlier second, or the same one.
MaxTime == 1

Times == 0..MaxTime

\* Vec::truncate
truncate_kept(s, limit) == s

truncate(s, limit) == IF Len(s) > limit THEN SubSeq(s, 1, limit) ELSE s

\* records.sort_by(|a, b| b.timestamp.cmp(&a.timestamp)) over the records in
\* the order HashMap::values yields them, which is any order: the sort is
\* stable, so records of equal timestamp come out in any order.  The set of the
\* vectors the call may produce.
RECURSIVE sort_by_timestamp_desc(_)
sort_by_timestamp_desc(S) ==
    IF S = {} THEN { <<>> }
    ELSE LET latest == {r \in S : \A o \in S : o.timestamp <= r.timestamp}
         IN  UNION { { <<r>> \o rest : rest \in sort_by_timestamp_desc(S \ {r}) } :
                     r \in latest }

\* WatchHistory::get_recent: the vectors the call may return.
get_recent(h, limit) ==
    { truncate(s, limit) : s \in sort_by_timestamp_desc(values(h)) }

\* main: the tuples handed to App::set_history for the records of get_recent.
history_tuples(recent) ==
    [i \in 1..Len(recent) |->
         HistoryRecord(recent[i].show_id, recent[i].show_name, recent[i].episode,
                       recent[i].mode)]

\* main: watch_history.get_recent(10)
RecentLimit == 10

\* WatchHistory::load().unwrap_or_default() at the start of a session: no
\* history, or show a watched last and show b before it.
LoadedHistories ==
    { WatchHistory_new,
      update(update(WatchHistory_new, "a", "A", 1, "sub", 1), "b", "B", 2, "dub", 0) }

\* watch_history.update(&show.id, &show.name, episode.number, mode) followed by
\* let _ = watch_history.save(): the history in memory, and the file, which
\* holds the new history when the save succeeded and is left as it was when the
\* save failed (the error is dropped).
record_watched(h, file, show, episode, mode, now, saved) ==
    LET h1 == update(h, show.id, show.name, episode.number, mode, now)
    IN  [history |-> h1, file |-> IF saved THEN h1 ELSE file]

\* ------------------------------------------------------ retry_with_backoff
MAX_RETRIES == 3

BASE_RETRY_DELAY_MS == 500

\* The reqwest::Error kinds an operation fails with.
ErrorKinds == {"timeout", "connect", "request", "status_500", "status_404", "decode"}

\* What one invocation of the operation f answers.
Answers ==
    {[ok |-> TRUE, v |-> v] : v \in {"r1", "r2"}}
    \cup {[ok |-> FALSE, v |-> e] : e \in ErrorKinds}

\* is_retryable_error
is_retryable_error(e) == e \in {"timeout", "connect", "request", "status_500"}

\* A call of retry_with_backoff before its first attempt: the loop counter, the
\* answers f has given, the delays slept (ms), last_error and the value
\* returned (result; an error carries the wording of its message).
retry_new ==
    [pc |-> "call", attempt |-> 0, answers |-> <<>>, slept |-> <<>>,
     last_error |-> None, result |-> None]

retry_call_once_more(r, answer) ==
    LET r1 == [r EXCEPT !.answers = Append(@, answer)]
    IN  IF answer.ok
        THEN [r1 EXCEPT !.pc = "returned", !.result = Some([ok |-> TRUE, v |-> answer.v])]
        ELSE IF r.attempt <= MAX_RETRIES
        THEN [r1 EXCEPT !.pc = "sleep",
                        !.slept = Append(@, BASE_RETRY_DELAY_MS * (r.attempt + 1)),
                        !.last_error = Some(answer.v)]
        ELSE [r1 EXCEPT !.pc = "returned",
                        !.result = Some([ok |-> FALSE, v |-> <<"failed", answer.v>>])]

\* retry_with_backoff: one pass of the loop body, f().await answered.
retry_call(r, answer) ==
    LET r1 == [r EXCEPT !.answers = Append(@, answer)]
    IN  IF answer.ok
        THEN [r1 EXCEPT !.pc = "returned", !.result = Some([ok |-> TRUE, v |-> answer.v])]
        ELSE IF r.attempt < MAX_RETRIES /\ is_retryable_error(answer.v)
        THEN [r1 EXCEPT !.pc = "sleep",
                        !.slept = Append(@, BASE_RETRY_DELAY_MS * 2^r.attempt),
                        !.last_error = Some(answer.v)]
        ELSE [r1 EXCEPT !.pc = "returned",
                        !.result = Some([ok |-> FALSE, v |-> <<"failed", answer.v>>])]

\* retry_with_backoff: sleep(delay).await is over; the next iteration of the
\* loop, or the end of the range and the error that follows the loop.
retry_slept(r) ==
    IF r.attempt < MAX_RETRIES
    THEN [r EXCEPT !.pc = "call", !.attempt = @ + 1]
    ELSE [r EXCEPT !.pc = "returned",
                   !.result = Some([ok |-> FALSE,
                                    v |-> <<"failed after attempts", r.last_error.v>>])]

\* ------------------------------------------------------ orchestration loop
episodes_to_download_open_end(a, act) ==
    CASE act.type = "BatchAll" -> a.episodes
      [] act.type = "BatchRange" ->
             Filter(a.episodes, {el \in Elems(a.episodes) : el.number >= act.i})
      [] act.type = "BatchSingle" -> <<a.current_episode.v>>

\* The batch arm's episodes_to_download (main.rs 612-624).
episodes_to_download(a, act) ==
    LET in_range(e) == e.number >= act.i /\ e.number <= act.j
    IN  CASE act.type = "BatchAll" -> a.episodes
          [] act.type = "BatchRange" ->
                 Filter(a.episodes, {el \in Elems(a.episodes) : in_range(el)})
          [] act.type = "BatchSingle" -> <<a.current_episode.v>>

\* run_app, from the key event to the first await of the action's arm (or to the
\* end of the iteration when the arm awaits nothing).  next names where the loop
\* goes: "await" (a catalog call is in flight), "batch" (the download loop),
\* "poll" (the arm is over; the error is still to be cleared) or "done".
begin_effect(a, act) ==
    LET stay == [app |-> a, next |-> "poll", queue |-> <<>>]
    IN  CASE act.type = "Quit" -> [app |-> a, next |-> "done", queue |-> <<>>]
          [] act.type = "Search" ->
                [app |-> set_loading(a), next |-> "await", queue |-> <<>>]
          [] act.type = "SelectShow" ->
                IF act.i < Len(a.shows)
                THEN [app |-> set_loading(
                                  [a EXCEPT !.selected_show = Some(a.shows[act.i + 1])]),
                      next |-> "await", queue |-> <<>>]
                ELSE stay
          [] act.type = "SelectEpisode" ->
                IF act.i < Len(a.episodes)
                THEN LET a1 == [a EXCEPT !.current_episode =
                                             Some(a.episodes[act.i + 1])]
                     IN  IF a.download_mode
                         THEN [app |-> show_batch_menu(a1), next |-> "poll",
                               queue |-> <<>>]
                         ELSE IF a.selected_show.some
                         THEN [app |-> set_loading(a1), next |-> "await",
                               queue |-> <<>>]
                         ELSE [app |-> a1, next |-> "poll", queue |-> <<>>]
                ELSE stay
          [] act.type = "SelectQuality" ->
                IF act.i < Len(a.sources)
                THEN [app |-> [a EXCEPT !.selected_source =
                                            Some(a.sources[act.i + 1])],
                      next |-> "poll", queue |-> <<>>]
                ELSE stay
          [] act.type \in {"Next", "Previous", "Replay"} ->
                IF a.current_episode.some
                THEN LET same(e)     == e.number = a.current_episode.v.number
                         current_idx == position(a.episodes, {el \in Elems(a.episodes) : same(el)})
                         new_episode ==
                             CASE act.type = "Next" ->
                                    IF current_idx # NoSel
                                       /\ current_idx + 1 < Len(a.episodes)
                                    THEN Some(a.episodes[current_idx + 2]) ELSE None
                               [] act.type = "Previous" ->
                                    IF current_idx # NoSel /\ current_idx > 0
                                    THEN Some(a.episodes[current_idx]) ELSE None
                               [] act.type = "Replay" -> a.current_episode
                         a1 == [a EXCEPT !.current_episode = new_episode]
                     IN  IF new_episode.some
                         THEN IF a.selected_show.some
                              THEN [app |-> set_loading(a1), next |-> "await",
                                    queue |-> <<>>]
                              ELSE [app |-> a1, next |-> "poll", queue |-> <<>>]
                         ELSE stay
                ELSE stay
          [] act.type = "BackToEpisodes" ->
                [app |-> [a EXCEPT !.screen = "EpisodeList"], next |-> "poll",
                 queue |-> <<>>]
          [] act.type = "ContinueFromHistory" ->
                IF act.i < Len(a.history_records)
                THEN [app |-> set_loading(a), next |-> "await", queue |-> <<>>]
                ELSE stay
          [] act.type = "NewSearch" ->
                [app |-> [a EXCEPT !.screen = "Search"], next |-> "poll",
                 queue |-> <<>>]
          [] act.type \in {"BatchAll", "BatchSingle", "BatchRange"} ->
                IF a.selected_show.some /\ a.current_episode.some
                THEN [app |-> a, next |-> "batch",
                      queue |-> episodes_to_download(a, act)]
                ELSE stay
          [] OTHER -> stay

\* The end of a loop iteration (main.rs 697-706): the error is cleared when the
\* action was not None, and the loop ends when should_quit is set.
end_iteration(a, act) == IF act.type # "None" THEN clear_error(a) ELSE a

next_pc(a) == IF a.should_quit THEN "done" ELSE "poll"

\* Action::Search, after search_shows has answered.
search_result(a, ok, shows) ==
    IF ok
    THEN IF Len(shows) = 0
         THEN [set_error(a, "No results found", 0) EXCEPT !.screen = "Search"]
         ELSE set_shows(a, shows)
    ELSE [set_error(a, "search failed", 0) EXCEPT !.screen = "Search"]

\* Action::SelectShow, after fetch_episodes has answered.
select_show_result(a, ok, episodes) ==
    IF ok THEN set_episodes(a, sort_by_number(episodes))
    ELSE [set_error(a, "fetch episodes failed", 0) EXCEPT !.screen = "ShowList"]

\* Action::SelectEpisode, after fetch_stream_sources has answered.
select_episode_result(a, ok, sources) ==
    IF ok
    THEN IF Len(sources) = 0
         THEN [set_error(a, "No sources found", 0) EXCEPT !.screen = "EpisodeList"]
         ELSE LET chosen == choose_stream(sources, a.quality)
              IN  IF chosen.ok
                  THEN show_playback_menu(
                           [a EXCEPT !.selected_source = Some(chosen.v)])
                  ELSE [set_error(a, "No sources available", 0)
                            EXCEPT !.screen = "EpisodeList"]
    ELSE [set_error(a, "fetch sources failed", 0) EXCEPT !.screen = "EpisodeList"]

\* Action::Next | Previous | Replay, after fetch_stream_sources has answered.
navigate_result(a, ok, sources) ==
    IF ok
    THEN IF choose_stream(sources, a.quality).ok THEN show_playback_menu(a) ELSE a
    ELSE set_error(a, "fetch sources failed", 0)

\* The SelectEpisode and the Next | Previous | Replay arm reach update, save and
\* the player when the fetch answered Ok and choose_stream chose a source.
played(ok, sources, quality) == ok /\ choose_stream(sources, quality).ok

\* Action::ContinueFromHistory(i), after fetch_episodes has answered.  episodes[0]
\* of an empty answer panics: the result is then not an App.
continue_result(a, i, ok, fetched) ==
    IF ok
    THEN LET record      == a.history_records[i + 1]
             episodes    == sort_by_number(fetched)
             is_next(e)  == e.number = record.episode + 1
             is_same(e)  == e.number = record.episode
             resume_ep   ==
                 IF position(episodes, {el \in Elems(episodes) : is_next(el)}) # NoSel
                 THEN episodes[position(episodes, {el \in Elems(episodes) : is_next(el)}) + 1]
                 ELSE IF position(episodes, {el \in Elems(episodes) : is_same(el)}) # NoSel
                 THEN episodes[position(episodes, {el \in Elems(episodes) : is_same(el)}) + 1]
                 ELSE episodes[1]
             is_resume(e) == e.number = resume_ep.number
             a1 == set_episodes(
                       [a EXCEPT !.selected_show =
                                     Some(Show(record.show_id, record.name,
                                               Len(episodes)))],
                       episodes)
             idx == position(a1.episodes, {el \in Elems(a1.episodes) : is_resume(el)})
         IN  [panic |-> Len(episodes) = 0,
              app   |-> IF Len(episodes) = 0 THEN a
                        ELSE [a1 EXCEPT !.episode_list_state =
                                            IF idx = NoSel THEN 0 ELSE idx]]
    ELSE [panic |-> FALSE,
          app   |-> [set_error(a, "fetch episodes failed", 0)
                         EXCEPT !.screen = "Startup"]]

\* One pass of the batch download loop over episode = episodes_to_download[idx],
\* after the file system, the catalog and the downloader have answered
\* (outcome): "exists" when output_path.exists(), "no_sources" when
\* fetch_stream_sources answers Err or an empty list, "download_failed" and
\* "downloaded" for download_file.  The pass runs to the end of the item, or to
\* the sleep that follows a failure, while the error is on display.
BatchOutcomes == {"exists", "no_sources", "download_failed", "downloaded"}

BatchFailures == {"no_sources", "download_failed"}

batch_item(a, idx, episode, outcome) ==
    CASE outcome = "exists" ->
             [a EXCEPT !.status_message = Some(Msg("Skipping (exists)", idx + 1))]
      [] outcome = "no_sources" ->
             set_error(set_loading(a), "No sources for episode", episode.number)
      [] outcome = "download_failed" ->
             set_error(set_loading(a), "Download failed", 0)
      [] outcome = "downloaded" -> set_loading(a)

batch_calls_fetch_first(outcome) ==
    CASE outcome = "exists" -> {"exists", "fetch_stream_sources"}
      [] outcome = "no_sources" -> {"exists", "fetch_stream_sources"}
      [] outcome = "download_failed" ->
             {"exists", "fetch_stream_sources", "download_file"}
      [] outcome = "downloaded" ->
             {"exists", "fetch_stream_sources", "download_file", "update", "save"}

\* The operations the pass makes before its outcome is known: output_path
\* .exists() always, and after a path that does not exist
\* fetch_stream_sources, after sources download_file, and after a download
\* watch_history.update and save.
batch_calls(outcome) ==
    CASE outcome = "exists" -> {"exists"}
      [] outcome = "no_sources" -> {"exists", "fetch_stream_sources"}
      [] outcome = "download_failed" ->
             {"exists", "fetch_stream_sources", "download_file"}
      [] outcome = "downloaded" ->
             {"exists", "fetch_stream_sources", "download_file", "update", "save"}

batch_history_always(h, file, a, episode, outcome, now, saved) ==
    record_watched(h, file, a.selected_show.v, episode, a.mode, now, saved)

\* The watch history after the pass: only a download that succeeded is recorded.
batch_history(h, file, a, episode, outcome, now, saved) ==
    IF outcome = "downloaded"
    THEN record_watched(h, file, a.selected_show.v, episode, a.mode, now, saved)
    ELSE [history |-> h, file |-> file]

\* After the sleep that follows a failed item: app.clear_error().
batch_resume(a) == clear_error(a)

\* The end of the batch arm.
batch_finish(a) == [set_status(a, "Download complete!") EXCEPT !.screen = "EpisodeList"]

\* ------------------------------------------------------------- environment
\* The characters the environment types, and the key events it sends.
TypedChars == {"s", "n", "q", "?", "y", "f", "0", "1", "2", "3", "-"}

Keys ==
    {KeyChar(c) : c \in TypedChars}
    \cup {KeyEnter, KeyEsc, KeyBackspace, KeyTab, KeyUp, KeyDown}
    \cup {KeyCtrl("c"), KeyCtrl("q")}

\* The characters the environment types into each text buffer.
SearchChars == {"n"}

FilterChars == {"2"}

RangeChars == {"0", "1", "2", "3", "-"}

Over(s, chars) == \A i \in 1..Len(s) : s[i] \in chars

\* The text buffers stay within the bounds of the model.
WithinBounds(a) ==
    /\ Len(a.search_input) <= MaxSearchLen /\ Over(a.search_input, SearchChars)
    /\ Len(a.episode_filter) <= MaxFilterLen /\ Over(a.episode_filter, FilterChars)
    /\ Len(a.range_input) <= MaxRangeLen /\ Over(a.range_input, RangeChars)

\* --------------------------------------------------------------- the loop
Init ==
    /\ \E download_mode \in BOOLEAN, loaded \in LoadedHistories :
           /\ watch_history = loaded
           /\ history_file = loaded
           /\ \E recent \in get_recent(loaded, RecentLimit) :
                  app = App_new("sub", <<"b","e","s","t">>, download_mode,
                                history_tuples(recent))
    /\ action = ActNone
    /\ pc = "poll"
    /\ batch_queue = <<>>
    /\ batch_idx = 0
    /\ keys_handled = 0
    /\ key_queue = <<>>
    /\ calls = {}
    /\ retry = retry_new

\* run_app: poll_event delivers key k, handle_input routes it, and the arm of the
\* returned action runs up to its first await.  A key that handle_input ignores
\* (it returns None and changes nothing) leaves the whole state as it is, so
\* that iteration is a stuttering step: action holds what the last key event
\* that had an effect returned.  (r and b are bound through
\* singleton sets so that each is computed once.)
KeyEvent(k) ==
    /\ pc = "poll"
    /\ key_queue = <<>>
    /\ keys_handled < MaxKeys
    /\ \E r \in {handle_input(app, k)} :
           /\ r # Ret(app, ActNone)
           /\ WithinBounds(r.app)
           /\ \E b \in {begin_effect(r.app, r.action)} :
                  /\ keys_handled' = keys_handled + 1
                  /\ action' = r.action
                  /\ app' = IF b.next = "poll" THEN end_iteration(b.app, r.action)
                            ELSE b.app
                  /\ pc' = IF b.next = "poll" THEN next_pc(b.app) ELSE b.next
                  /\ batch_queue' = b.queue
                  /\ batch_idx' = 0
    /\ UNCHANGED <<watch_history, history_file, key_queue, calls, retry>>

\* search_shows answers.
SearchResolve ==
    /\ pc = "await" /\ action.type = "Search"
    /\ \E ok \in BOOLEAN, shows \in ShowResults :
           /\ (~ok => shows = <<>>)
           /\ app' = end_iteration(search_result(app, ok, shows), action)
    /\ pc' = next_pc(app)
    /\ UNCHANGED <<action, batch_queue, batch_idx, keys_handled,
                   watch_history, history_file, key_queue, calls, retry>>

\* fetch_episodes answers for SelectShow.
SelectShowResolve ==
    /\ pc = "await" /\ action.type = "SelectShow"
    /\ \E ok \in BOOLEAN, episodes \in EpisodeResults :
           /\ (~ok => episodes = <<>>)
           /\ app' = end_iteration(select_show_result(app, ok, episodes), action)
    /\ pc' = next_pc(app)
    /\ UNCHANGED <<action, batch_queue, batch_idx, keys_handled,
                   watch_history, history_file, key_queue, calls, retry>>

\* fetch_stream_sources answers for SelectEpisode; the episode played is
\* recorded in the watch history.
SelectEpisodeResolve ==
    /\ pc = "await" /\ action.type = "SelectEpisode"
    /\ \E ok \in BOOLEAN, sources \in SourceResults, now \in Times, saved \in BOOLEAN :
           /\ (~ok => sources = <<>>)
           /\ app' = end_iteration(select_episode_result(app, ok, sources), action)
           /\ \E w \in {IF played(ok, sources, app.quality)
                        THEN record_watched(watch_history, history_file,
                                            app.selected_show.v,
                                            app.current_episode.v, app.mode,
                                            now, saved)
                        ELSE [history |-> watch_history, file |-> history_file]} :
                  /\ watch_history' = w.history
                  /\ history_file' = w.file
    /\ pc' = next_pc(app)
    /\ UNCHANGED <<action, batch_queue, batch_idx, keys_handled, key_queue, calls, retry>>

\* fetch_stream_sources answers for Next, Previous or Replay; the episode played
\* is recorded in the watch history.
NavigateResolve ==
    /\ pc = "await" /\ action.type \in {"Next", "Previous", "Replay"}
    /\ \E ok \in BOOLEAN, sources \in SourceResults, now \in Times, saved \in BOOLEAN :
           /\ (~ok => sources = <<>>)
           /\ app' = end_iteration(navigate_result(app, ok, sources), action)
           /\ \E w \in {IF played(ok, sources, app.quality)
                        THEN record_watched(watch_history, history_file,
                                            app.selected_show.v,
                                            app.current_episode.v, app.mode,
                                            now, saved)
                        ELSE [history |-> watch_history, file |-> history_file]} :
                  /\ watch_history' = w.history
                  /\ history_file' = w.file
    /\ pc' = next_pc(app)
    /\ UNCHANGED <<action, batch_queue, batch_idx, keys_handled, key_queue, calls, retry>>

\* fetch_episodes answers for ContinueFromHistory.
ContinueResolve ==
    /\ pc = "await" /\ action.type = "ContinueFromHistory"
    /\ \E ok \in BOOLEAN, episodes \in EpisodeResults :
           /\ (~ok => episodes = <<>>)
           /\ \E r \in {continue_result(app, action.i, ok, episodes)} :
                  IF r.panic
                  THEN pc' = "panic" /\ app' = app
                  ELSE pc' = next_pc(app) /\ app' = end_iteration(r.app, action)
    /\ UNCHANGED <<action, batch_queue, batch_idx, keys_handled,
                   watch_history, history_file, key_queue, calls, retry>>

\* One episode of the batch is handled: to the end of the item, or to the sleep
\* that follows a failure.
BatchItem ==
    /\ pc = "batch" /\ batch_idx < Len(batch_queue)
    /\ \E outcome \in BatchOutcomes, now \in Times, saved \in BOOLEAN :
           LET episode == batch_queue[batch_idx + 1]
               w == batch_history(watch_history, history_file, app, episode,
                                  outcome, now, saved)
           IN  /\ (outcome # "downloaded" => now = 0 /\ saved)
               /\ app' = batch_item(app, batch_idx, episode, outcome)
               /\ calls' = batch_calls(outcome)
               /\ watch_history' = w.history
               /\ history_file' = w.file
               /\ IF outcome \in BatchFailures
                  THEN pc' = "batch_sleep" /\ batch_idx' = batch_idx
                  ELSE pc' = "batch" /\ batch_idx' = batch_idx + 1
    /\ UNCHANGED <<action, batch_queue, keys_handled, key_queue, retry>>

\* The sleep after a failed item is over: the error is cleared and the loop
\* goes on with the next episode.
BatchResume ==
    /\ pc = "batch_sleep"
    /\ app' = batch_resume(app)
    /\ pc' = "batch"
    /\ batch_idx' = batch_idx + 1
    /\ UNCHANGED <<action, batch_queue, keys_handled,
                   watch_history, history_file, key_queue, calls, retry>>

\* The batch is over.
BatchFinish ==
    /\ pc = "batch" /\ batch_idx = Len(batch_queue)
    /\ app' = end_iteration(batch_finish(app), action)
    /\ pc' = next_pc(app)
    /\ batch_queue' = <<>>
    /\ batch_idx' = 0
    /\ calls' = {}
    /\ UNCHANGED <<action, keys_handled, watch_history, history_file, key_queue,
                   retry>>

Next ==
    \/ \E k \in Keys : KeyEvent(k)
    \/ SearchResolve
    \/ SelectShowResolve
    \/ SelectEpisodeResolve
    \/ NavigateResolve
    \/ ContinueResolve
    \/ BatchItem
    \/ BatchResume
    \/ BatchFinish

Spec == Init /\ [][Next]_vars

\* ------------------------------------------------- the quality selector alone
\* choose_stream on its own: the call of run_app's SelectEpisode arm,
\* choose_stream(&sources, quality), over the source lists and quality tokens
\* below.  The arguments are held in app.sources and app.quality, the source
\* returned in app.selected_source.

\* The quality values of the sources: not an i32 value at all is excluded by the
\* type, so a negative one (neither known nor unknown) is among them.
Qualities == {-1, 0, 1, 480, 720}

\* Every list of at most MaxSources sources; the url tells the sources of one
\* list apart.
SourceLists ==
    UNION { { [i \in 1..n |-> StreamSource(f[i], ToString(i))] :
                f \in [1..n -> Qualities] } : n \in 0..MaxSources }

\* The quality tokens: best and worst in several letter cases, numbers with an
\* exact match, between two qualities, signed, at and beyond the ends of i32, and
\* texts that are not numbers.
Tokens ==
    { <<"b","e","s","t">>, <<"B","e","S","t">>, <<"w","o","r","s","t">>,
      <<"W","O","R","S","T">>,
      <<"7","2","0">>, <<"6","0","0">>, <<"+","4","8","0">>, <<"0">>, <<"-","1">>,
      <<"2","1","4","7","4","8","3","6","4","7">>,
      <<"-","2","1","4","7","4","8","3","6","4","7">>,
      <<"-","2","1","4","7","4","8","3","6","4","8">>,
      <<"3","0","0","0","0","0","0","0","0","0">>,
      <<>>, <<"7","2","p">>, <<" ","b","e","s","t">>, <<"-">> }

InitSelector ==
    /\ \E sources \in SourceLists, quality \in Tokens :
           app = [App_new("sub", quality, FALSE, <<>>) EXCEPT !.sources = sources]
    /\ action = ActNone
    /\ pc = "choose_stream"
    /\ batch_queue = <<>>
    /\ batch_idx = 0
    /\ keys_handled = 0
    /\ watch_history = WatchHistory_new
    /\ history_file = WatchHistory_new
    /\ key_queue = <<>>
    /\ calls = {}
    /\ retry = retry_new

\* The call returns Ok(source), returns Err, or, in a build with overflow checks
\* (the dev profile's default; the release profile's default is without), panics
\* where an i32 operation overflows.
ChooseStream ==
    /\ pc = "choose_stream"
    /\ \E r \in {choose_stream(app.sources, app.quality)}, overflow_checks \in BOOLEAN :
           IF r.overflow /\ overflow_checks
           THEN /\ pc' = "panic"
                /\ app' = app
           ELSE IF r.ok
           THEN /\ pc' = "selected"
                /\ app' = [app EXCEPT !.selected_source = Some(r.v)]
           ELSE /\ pc' = "no_sources"
                /\ app' = app
    /\ UNCHANGED <<action, batch_queue, batch_idx, keys_handled,
                   watch_history, history_file, key_queue, calls, retry>>

NextSelector == ChooseStream

SpecSelector == InitSelector /\ [][NextSelector]_vars

\* ------------------------------------------------- the episode list alone
\* The EpisodeList screen on its own: the session right after set_episodes, over
\* the episode lists below, with the keys of the list and of its filter.

\* Ok(episodes) of fetch_episodes, sorted by number as run_app sorts them before
\* set_episodes; the titles exercise the title match of the filter.
EpisodeLists ==
    { <<>>,
      <<Episode(1), Episode(2), Episode(10), Episode(11), Episode(12)>>,
      <<EpisodeTitled(2, <<"F","1">>), Episode(3), EpisodeTitled(12, <<"f","f">>)>> }

\* The characters typed into the episode filter.
FilterTextChars == {"1", "2", "f", "F"}

\* The key events delivered on the episode list.
FilterKeys ==
    {KeyChar(c) : c \in FilterTextChars}
    \cup {KeyEnter, KeyEsc, KeyBackspace, KeyUp, KeyDown}

InitFilter ==
    /\ \E episodes \in EpisodeLists, download_mode \in BOOLEAN :
           app = set_episodes(
                     [App_new("sub", <<"b","e","s","t">>, download_mode, <<>>)
                          EXCEPT !.selected_show = Some(ShowA)],
                     episodes)
    /\ action = ActNone
    /\ pc = "poll"
    /\ batch_queue = <<>>
    /\ batch_idx = 0
    /\ keys_handled = 0
    /\ watch_history = WatchHistory_new
    /\ history_file = WatchHistory_new
    /\ key_queue = <<>>
    /\ calls = {}
    /\ retry = retry_new

\* run_app: one key event on the episode list (KeyEvent, with the filter text
\* bounded by MaxFilterText).
FilterKeyEvent(k) ==
    /\ pc = "poll"
    /\ app.screen = "EpisodeList"
    /\ \E r \in {handle_input(app, k)} :
           /\ r # Ret(app, ActNone)
           /\ Len(r.app.episode_filter) <= MaxFilterText
           /\ \E b \in {begin_effect(r.app, r.action)} :
                  /\ action' = r.action
                  /\ app' = IF b.next = "poll" THEN end_iteration(b.app, r.action)
                            ELSE b.app
                  /\ pc' = IF b.next = "poll" THEN next_pc(b.app) ELSE b.next
                  /\ batch_queue' = b.queue
    /\ UNCHANGED <<batch_idx, keys_handled, watch_history, history_file, key_queue, calls, retry>>

NextFilter == \E k \in FilterKeys : FilterKeyEvent(k)

SpecFilter == InitFilter /\ [][NextFilter]_vars

\* ------------------------------------------------- the batch download alone
\* The batch menu of a download session on its own: the session right after
\* SelectEpisode put it on the BatchSelect screen, the keys of the menu, of the
\* range prompt and of the confirmation, and the download loop.

\* The sorted episode lists of the show.
BatchEpisodeLists ==
    { <<Episode(1), Episode(2), Episode(3)>>, <<Episode(2), Episode(3)>> }

\* The key events delivered on the batch menu.
BatchKeys ==
    {KeyChar(c) : c \in {"1", "2", "3", "-", "y", "n"}}
    \cup {KeyEnter, KeyEsc, KeyBackspace, KeyUp, KeyDown}

InitBatch ==
    /\ \E episodes \in BatchEpisodeLists, loaded \in LoadedHistories :
           /\ \E i \in 0..(Len(episodes) - 1), recent \in get_recent(loaded, RecentLimit) :
                  app = show_batch_menu(
                            [set_episodes(
                                 [App_new("sub", <<"b","e","s","t">>, TRUE,
                                          history_tuples(recent))
                                      EXCEPT !.selected_show = Some(ShowA)],
                                 episodes)
                                 EXCEPT !.episode_list_state = i,
                                        !.current_episode = Some(episodes[i + 1])])
           /\ watch_history = loaded
           /\ history_file = loaded
    /\ action = ActNone
    /\ pc = "poll"
    /\ batch_queue = <<>>
    /\ batch_idx = 0
    /\ keys_handled = 0
    /\ key_queue = <<>>
    /\ calls = {}
    /\ retry = retry_new

\* run_app: one key event on the batch menu (KeyEvent, without the session's
\* key budget).
BatchKeyEvent(k) ==
    /\ pc = "poll"
    /\ app.screen = "BatchSelect"
    /\ \E r \in {handle_input(app, k)} :
           /\ r # Ret(app, ActNone)
           /\ Len(r.app.range_input) <= MaxRangeLen
           /\ \E b \in {begin_effect(r.app, r.action)} :
                  /\ action' = r.action
                  /\ app' = IF b.next = "poll" THEN end_iteration(b.app, r.action)
                            ELSE b.app
                  /\ pc' = IF b.next = "poll" THEN next_pc(b.app) ELSE b.next
                  /\ batch_queue' = b.queue
                  /\ batch_idx' = 0
    /\ UNCHANGED <<keys_handled, watch_history, history_file, key_queue, calls, retry>>

NextBatch ==
    \/ \E k \in BatchKeys : BatchKeyEvent(k)
    \/ BatchItem
    \/ BatchResume
    \/ BatchFinish

SpecBatch == InitBatch /\ [][NextBatch]_vars

\* ------------------------------------------------- the watch history alone
\* WatchHistory on its own: a history loaded from the file, the update calls of
\* a session, and the start of the next session, where main hands the recent
\* records to App::set_history.

\* The histories the file may hold: those of LoadedHistories, and one of eleven
\* shows, one more than main asks get_recent for, whose two oldest records
\* carry the same timestamp.
StoredHistories ==
    LET many == <<"c", "d", "e", "f", "g", "h", "i", "j", "k", "l", "m">>
    IN  LoadedHistories
        \cup { [x \in Elems(many) |->
                   LET i == CHOOSE n \in 1..Len(many) : many[n] = x
                   IN  WatchRecord(x, x, i, "sub", IF i = 1 THEN 12 ELSE 10 + i)] }

\* The arguments of the update calls: show, episode number and mode.
UpdateCalls ==
    { [show |-> show, episode |-> episode, mode |-> mode] :
        show \in { Show("a", "A", 2), Show("a", "A2", 2), Show("b", "B", 1) },
        episode \in {1, 2}, mode \in {"sub", "dub"} }

InitHistory ==
    /\ watch_history \in StoredHistories
    /\ history_file = watch_history
    /\ app = App_new("sub", <<"b","e","s","t">>, FALSE, <<>>)
    /\ action = ActNone
    /\ pc = "update"
    /\ batch_queue = <<>>
    /\ batch_idx = 0
    /\ keys_handled = 0
    /\ key_queue = <<>>
    /\ calls = {}
    /\ retry = retry_new

\* watch_history.update(&show.id, &show.name, episode.number, mode)
HistoryUpdate ==
    /\ pc = "update"
    /\ \E c \in UpdateCalls, now \in Times :
           watch_history' = update(watch_history, c.show.id, c.show.name, c.episode,
                                   c.mode, now)
    /\ UNCHANGED <<app, action, pc, batch_queue, batch_idx, keys_handled,
                   history_file, key_queue, calls, retry>>

\* main, at the start of the next session: watch_history.get_recent(10) and
\* app.set_history(history_records).
SetHistory ==
    /\ pc = "update"
    /\ \E recent \in get_recent(watch_history, RecentLimit) :
           app' = App_new("sub", <<"b","e","s","t">>, FALSE, history_tuples(recent))
    /\ pc' = "poll"
    /\ UNCHANGED <<action, batch_queue, batch_idx, keys_handled,
                   watch_history, history_file, key_queue, calls, retry>>

NextHistory == HistoryUpdate \/ SetHistory

SpecHistory == InitHistory /\ [][NextHistory]_vars

\* ------------------------------------------------- keys that arrive at any time
\* The session with the terminal driver between the keyboard and the loop: a key
\* event arrives whenever the user presses a key, also while the loop awaits a
\* lookup or a download, and waits in the driver's queue until the loop polls.

\* The keys the user presses.
QueueKeys ==
    {KeyChar(c) : c \in {"s", "n", "y", "q"}} \cup {KeyEnter, KeyDown}

read_event_newest(queue) ==
    [key |-> queue[Len(queue)], rest |-> SubSeq(queue, 1, Len(queue) - 1)]

\* event::read(): the oldest event of the queue.
read_event(queue) == [key |-> Head(queue), rest |-> Tail(queue)]

\* The user presses key k: the driver queues the event.
KeyArrives(k) ==
    /\ pc \notin {"done", "panic"}
    /\ keys_handled + Len(key_queue) < MaxArrivals
    /\ key_queue' = Append(key_queue, k)
    /\ UNCHANGED <<app, action, pc, batch_queue, batch_idx, keys_handled,
                   watch_history, history_file, calls, retry>>

\* run_app: poll_event reads the oldest queued key, handle_input routes it, and
\* the arm of the returned action runs up to its first await (KeyEvent, for a
\* key taken from the queue).
PollKey ==
    /\ pc = "poll"
    /\ key_queue # <<>>
    /\ \E e \in {read_event(key_queue)} :
           /\ key_queue' = e.rest
           /\ \E r \in {handle_input(app, e.key)} :
                  /\ WithinBounds(r.app)
                  /\ \E b \in {begin_effect(r.app, r.action)} :
                         /\ keys_handled' = keys_handled + 1
                         /\ action' = r.action
                         /\ app' = IF b.next = "poll"
                                   THEN end_iteration(b.app, r.action) ELSE b.app
                         /\ pc' = IF b.next = "poll" THEN next_pc(b.app) ELSE b.next
                         /\ batch_queue' = b.queue
                         /\ batch_idx' = 0
    /\ UNCHANGED <<watch_history, history_file, calls, retry>>

NextQueue ==
    \/ \E k \in QueueKeys : KeyArrives(k)
    \/ PollKey
    \/ SearchResolve
    \/ SelectShowResolve
    \/ SelectEpisodeResolve
    \/ NavigateResolve
    \/ ContinueResolve
    \/ BatchItem
    \/ BatchResume
    \/ BatchFinish

SpecQueue == Init /\ [][NextQueue]_vars

\* -------------------------------------------------- retry_with_backoff alone
\* f().await answers.
RetryCall ==
    /\ retry.pc = "call"
    /\ \E answer \in Answers : retry' = retry_call(retry, answer)
    /\ UNCHANGED <<app, action, pc, batch_queue, batch_idx, keys_handled,
                   watch_history, history_file, key_queue, calls>>

\* The delay is over.
RetrySlept ==
    /\ retry.pc = "sleep"
    /\ retry' = retry_slept(retry)
    /\ UNCHANGED <<app, action, pc, batch_queue, batch_idx, keys_handled,
                   watch_history, history_file, key_queue, calls>>

NextRetry ==
    \/ RetryCall
    \/ RetrySlept

SpecRetry == Init /\ [][NextRetry]_vars


\* ------------------------------------------------ the keys handle_input sees
\* Every key event the properties below quantify over: characters (bound and
\* unbound, both letter cases), the named keys, each with and without the CONTROL
\* and ALT modifiers.
AllChars ==
    {"s", "n", "q", "y", "f", "k", "j", "p", "r", "e", "a", "c", "?", "/",
     "Y", "N", "Q", " ", "0", "1", "2", "3", "-"}

BaseKeys ==
    {KeyChar(c) : c \in AllChars}
    \cup {KeyEnter, KeyEsc, KeyBackspace, KeyTab, KeyUp, KeyDown, KeyCode("Left")}

AllKeys ==
    {[k EXCEPT !.ctrl = c, !.alt = m] : k \in BaseKeys, c \in BOOLEAN, m \in BOOLEAN}

ForceQuitChords ==
    {k \in AllKeys : k.ctrl /\ k.code = "Char" /\ k.ch \in {"c", "q"}}

CharKeys == {k \in AllKeys : k.code = "Char"}

EnterKeys == {k \in AllKeys : k.code = "Enter"}

InputModes(a) ==
    {m \in {"search_focused", "episode_filter_active", "range_input_mode",
            "batch_confirm_mode"} : a[m]}

\* No input mode is active and the help overlay is closed.
NoModalMode(a) == InputModes(a) = {} /\ ~a.show_help

Cursors(a) ==
    <<a.show_list_state, a.episode_list_state, a.quality_list_state,
      a.playback_list_state, a.history_list_state, a.startup_list_state,
      a.batch_list_state>>

\* ------------------------------------------------------------------- C1
\* C1: in every reachable state at most one of search_focused,
\* episode_filter_active, range_input_mode and batch_confirm_mode is true.
C1_OneInputMode == Cardinality(InputModes(app)) <= 1

\* Batch-confirm mode is entered in a session that used the episode filter before.
C1_Witness ==
    /\ app.batch_confirm_mode
    /\ app.episode_filter # <<>>
    /\ InputModes(app) = {"batch_confirm_mode"}

\* ------------------------------------------------------------------- C2
\* C2: in every reachable state, whatever the mode, the screen and the focus,
\* handle_input answers Ctrl+C and Ctrl+Q with Action::Quit and sets should_quit.
C2_ForceQuit ==
    \A k \in ForceQuitChords :
        \A r \in {handle_input(app, k)} : r.action = ActQuit /\ r.app.should_quit

\* The loop has ended on a Quit returned while the help overlay was open, which
\* only a force-quit chord does.
C2_Witness ==
    /\ pc = "done"
    /\ action = ActQuit
    /\ app.should_quit
    /\ app.show_help
    /\ app.search_focused

\* ------------------------------------------------------------------- C3
\* Escape (whatever the modifiers), the help toggle and the quit key.
CloseTrigger(k) == k.code = "Esc" \/ k = KeyChar("?") \/ k = KeyChar("q")

\* C3: while the help overlay is open, every key other than a force-quit chord
\* returns Action::None and changes no field but show_help, and show_help is
\* cleared exactly when the key is Escape, the help toggle or the quit key.
C3_HelpSwallows ==
    app.show_help =>
        \A k \in AllKeys \ ForceQuitChords :
            \A r \in {handle_input(app, k)} :
                /\ r.action = ActNone
                /\ r.app = [app EXCEPT !.show_help = r.app.show_help]
                /\ r.app.show_help = ~CloseTrigger(k)

\* The overlay is open over batch-confirm mode, and the quit key closes it there
\* without quitting.
C3_Witness ==
    /\ pc = "poll"
    /\ app.show_help
    /\ app.batch_confirm_mode
    /\ handle_input(app, KeyChar("q")) = Ret([app EXCEPT !.show_help = FALSE], ActNone)
    /\ handle_input(app, KeyChar("y")) = Ret(app, ActNone)

\* ------------------------------------------------------------------- C4
FocusBindingKeys == {KeyTab, KeyChar("s"), KeyChar("/")}

\* C4: while the search bar is focused and the help overlay is closed, the
\* toggle-focus key and the search-focus keys return Action::None, change neither
\* focus, screen nor any list cursor, and leave search_focused true.
C4_SearchBarKeepsFocus ==
    (app.search_focused /\ ~app.show_help) =>
        \A k \in FocusBindingKeys :
            \A r \in {handle_input(app, k)} :
                /\ r.action = ActNone
                /\ r.app.focus = app.focus
                /\ r.app.screen = app.screen
                /\ Cursors(r.app) = Cursors(app)
                /\ r.app.search_focused

\* The search bar is focused while the focus is on the sidebar: Tab is ignored
\* and s is typed into the buffer.
C4_Witness ==
    /\ pc = "poll"
    /\ app.search_focused
    /\ ~app.show_help
    /\ app.focus = "Sidebar"
    /\ app.history_list_state = 1
    /\ handle_input(app, KeyTab) = Ret(app, ActNone)
    /\ handle_input(app, KeyChar("s")) =
           Ret([app EXCEPT !.search_input = Push(app.search_input, "s")], ActNone)

\* ------------------------------------------------------------------- C5
\* C5 as stated: while the search bar is focused every character key, force-quit
\* chords aside, is appended to search_input, the help-toggle character included.
C5_EveryCharAppended ==
    (app.search_focused /\ ~app.show_help) =>
        \A k \in CharKeys \ ForceQuitChords :
            handle_input(app, k).app.search_input = Push(app.search_input, k.ch)

\* C5, amended: while the search bar is focused and the help overlay is closed,
\* every character key other than the help toggle (the unmodified ?) and the
\* force-quit chords returns Action::None and appends its character to
\* search_input, changing nothing else; the help toggle opens the overlay and
\* leaves search_input as it is.
C5_CharAppendedExceptHelp ==
    (app.search_focused /\ ~app.show_help) =>
        /\ \A k \in CharKeys \ (ForceQuitChords \cup {KeyChar("?")}) :
               handle_input(app, k) =
                   Ret([app EXCEPT !.search_input = Push(app.search_input, k.ch)],
                       ActNone)
        /\ handle_input(app, KeyChar("?")) = Ret([app EXCEPT !.show_help = TRUE], ActNone)

\* A character has been typed into the focused search bar, and ? typed with ALT
\* is appended like any other character.
C5_Witness ==
    /\ pc = "poll"
    /\ app.search_focused
    /\ ~app.show_help
    /\ app.search_input = <<"n">>
    /\ handle_input(app, KeyAlt("?")).app.search_input = <<"n", "?">>

\* ------------------------------------------------------------------- C6
QueryChars == {"n", "s", "/", "?", "Y"}

RECURSIVE Words(_, _)
Words(chars, n) ==
    IF n = 0 THEN {<<>>}
    ELSE LET shorter == Words(chars, n - 1)
         IN  shorter \cup {Append(w, c) : w \in shorter, c \in chars}

\* The non-empty queries of at most MaxQueryLen characters.
Queries(chars) == Words(chars, MaxQueryLen) \ {<<>>}

\* handle_input applied to the characters of w in turn: the state it ends in, and
\* whether every call returned Action::None.
RECURSIVE TypeQuery(_, _)
TypeQuery(a, w) ==
    IF w = <<>> THEN [app |-> a, quiet |-> TRUE]
    ELSE LET r    == handle_input(a, KeyChar(Head(w)))
             rest == TypeQuery(r.app, Tail(w))
         IN  [app |-> rest.app, quiet |-> r.action = ActNone /\ rest.quiet]

\* The key sequence [focus key f, the characters of w, Enter] from state a.
SearchBarScenario(a, f, w) ==
    \A r1 \in {handle_input(a, f)} :
        \A t \in {TypeQuery(r1.app, w)} :
            \A r3 \in {handle_input(t.app, KeyEnter)} :
                /\ r1.action = ActNone
                /\ t.quiet
                /\ r3.action = ActSearch(w)
                /\ ~r3.app.search_focused
                /\ r3.app.focus = "Main"
                /\ r3.app.search_input = <<>>

SearchFocusKeys == {KeyChar("s"), KeyChar("/")}

\* C6 as stated: from Startup with no modal mode active, [search-focus key, the
\* characters of any non-empty w, Enter] returns None before Enter and Search(w)
\* on Enter, and ends with search_focused false, focus Main, search_input empty.
C6_SearchScenario ==
    (app.screen = "Startup" /\ NoModalMode(app)) =>
        \A f \in SearchFocusKeys, w \in Queries(QueryChars) :
            SearchBarScenario(app, f, w)

\* C6, amended: the same, when search_input is empty at the start and w does not
\* contain the help-toggle character.
C6_SearchScenarioFromEmpty ==
    (app.screen = "Startup" /\ NoModalMode(app) /\ app.search_input = <<>>) =>
        \A f \in SearchFocusKeys, w \in Queries(QueryChars \ {"?"}) :
            SearchBarScenario(app, f, w)

\* On Startup the search bar holds a typed query and Enter emits it.
C6_Witness ==
    /\ pc = "poll"
    /\ app.screen = "Startup"
    /\ app.search_focused
    /\ ~app.show_help
    /\ app.focus = "Sidebar"
    /\ app.search_input = <<"n">>
    /\ handle_input(app, KeyEnter) =
           Ret([app EXCEPT !.search_input = <<>>, !.search_focused = FALSE,
                           !.focus = "Main"],
               ActSearch(<<"n">>))

\* ------------------------------------------------------------------- C7
Affirmative == {KeyChar("y"), KeyChar("Y"), KeyEnter}

Negative == {KeyChar("n"), KeyChar("N"), KeyEsc}

\* The affirmative keys, with and without CONTROL and ALT (y, Ctrl+Y, Alt+Enter, ...).
ModifiedAffirmative ==
    {k \in AllKeys : [k EXCEPT !.ctrl = FALSE, !.alt = FALSE] \in Affirmative}

\* C7: on BatchSelect, select on option 0 returns None, stages BatchAll and enters
\* batch-confirm mode; the next affirmative key returns BatchAll and leaves the
\* mode, after which no affirmative key returns BatchAll; and in no reachable
\* state does any key return BatchAll unless batch-confirm mode is on with BatchAll
\* staged and the key is affirmative.
C7_BatchAllOnce ==
    /\ (app.screen = "BatchSelect" /\ app.focus = "Main" /\ NoModalMode(app)
        /\ app.batch_list_state = 0) =>
           \A r1 \in {handle_input(app, KeyEnter)} :
               /\ r1.action = ActNone
               /\ r1.app.pending_batch_action = Some(ActBatchAll)
               /\ r1.app.batch_confirm_mode
               /\ \A k \in Affirmative :
                      \A r2 \in {handle_input(r1.app, k)} :
                          /\ r2.action = ActBatchAll
                          /\ ~r2.app.batch_confirm_mode
                          /\ \A k2 \in Affirmative :
                                 handle_input(r2.app, k2).action # ActBatchAll
    /\ \A k \in ModifiedAffirmative \cup Negative
                  \cup {KeyTab, KeyUp, KeyDown, KeyBackspace, KeyChar("a"),
                        KeyChar("s"), KeyChar("?")} :
           handle_input(app, k).action = ActBatchAll =>
               /\ app.batch_confirm_mode
               /\ app.pending_batch_action = Some(ActBatchAll)
               /\ [k EXCEPT !.ctrl = FALSE, !.alt = FALSE] \in Affirmative

\* BatchAll has been returned and the session is out of batch-confirm mode.
C7_Witness ==
    /\ action = ActBatchAll
    /\ pc = "batch"
    /\ ~app.batch_confirm_mode
    /\ app.screen = "BatchSelect"
    /\ app.batch_list_state = 0

\* ------------------------------------------------------------------- C8
\* C8: in batch-confirm mode (help overlay closed) a negative key returns None,
\* clears pending_batch_action and leaves the mode, and no key pressed next
\* returns a batch action; a key that is neither affirmative nor negative (the
\* force-quit chords, routed before the mode, aside) returns None and leaves the
\* mode and the pending action as they are.
C8_BatchConfirmNegative ==
    (app.batch_confirm_mode /\ ~app.show_help) =>
        /\ \A k \in Negative :
               \A r \in {handle_input(app, k)} :
                   /\ r.action = ActNone
                   /\ r.app.pending_batch_action = None
                   /\ ~r.app.batch_confirm_mode
                   /\ \A k2 \in AllKeys :
                          handle_input(r.app, k2).action.type
                              \notin {"BatchAll", "BatchRange"}
        /\ \A k \in AllKeys \ ForceQuitChords :
               (k.code \notin {"Enter", "Esc"} /\ k.ch \notin {"y", "Y", "n", "N"}) =>
                   \A r \in {handle_input(app, k)} :
                       /\ r.action = ActNone
                       /\ r.app.batch_confirm_mode
                       /\ r.app.pending_batch_action = app.pending_batch_action

\* A staged BatchAll was discarded: the session is back on BatchSelect with
\* nothing pending, and it was in batch-confirm mode one negative key earlier.
C8_Witness ==
    /\ pc = "poll"
    /\ app.batch_confirm_mode
    /\ app.pending_batch_action = Some(ActBatchAll)
    /\ ~app.show_help
    /\ handle_input(app, KeyChar("n")) =
           Ret([app EXCEPT !.batch_confirm_mode = FALSE,
                           !.pending_batch_action = None],
               ActNone)
    /\ handle_input(app, KeyChar("a")) = Ret(app, ActNone)

\* ------------------------------------------------------------------- C9
\* C9: in every reachable state pending_batch_action is set exactly when
\* batch_confirm_mode is true, and when set it is BatchAll or a BatchRange.
C9_PendingIffConfirm ==
    /\ app.pending_batch_action.some <=> app.batch_confirm_mode
    /\ app.pending_batch_action.some =>
           app.pending_batch_action.v.type \in {"BatchAll", "BatchRange"}

\* Batch-confirm mode was left by an affirmative key: nothing is pending any more.
C9_Witness ==
    /\ action = ActBatchAll
    /\ pc = "poll"
    /\ ~app.batch_confirm_mode
    /\ app.pending_batch_action = None
    /\ app.screen = "EpisodeList"

\* ------------------------------------------------------------------ C10
IsDigits(s) == Len(s) > 0 /\ \A i \in 1..Len(s) : s[i] \in Digits

DashAt(s) == {i \in 1..Len(s) : s[i] = "-"}

\* start-end: two non-empty runs of digits around one dash.
WellFormedRange(s) ==
    /\ Cardinality(DashAt(s)) = 1
    /\ \A i \in DashAt(s) :
           IsDigits(SubSeq(s, 1, i - 1)) /\ IsDigits(SubSeq(s, i + 1, Len(s)))

RECURSIVE NumberOf(_)
NumberOf(s) ==
    IF s = <<>> THEN 0
    ELSE 10 * NumberOf(SubSeq(s, 1, Len(s) - 1))
         + (CHOOSE d \in 0..9 : DigitChar(d) = s[Len(s)])

RangeStart(s) == NumberOf(SubSeq(s, 1, (CHOOSE i \in DashAt(s) : TRUE) - 1))

RangeEnd(s) == NumberOf(SubSeq(s, (CHOOSE i \in DashAt(s) : TRUE) + 1, Len(s)))

EpisodeNumbers(episodes) == {episodes[i].number : i \in 1..Len(episodes)}

\* The kinds of violation of a range text against the loaded episodes.
RangeViolations(s, episodes) ==
    IF ~WellFormedRange(s) THEN {"format"}
    ELSE LET start == RangeStart(s)
             end   == RangeEnd(s)
             nums  == EpisodeNumbers(episodes)
             outside(n) == \/ nums = {}
                           \/ \A m \in nums : n < m
                           \/ \A m \in nums : n > m
         IN  (IF start > end THEN {"order"} ELSE {})
             \cup (IF start < 1 THEN {"start"} ELSE {})
             \cup (IF outside(start) \/ outside(end) THEN {"bounds"} ELSE {})

\* The kind of violation an error message reports.
KindOfMessage(m) ==
    CASE m.text = "Invalid range format. Use: start-end (e.g., 1-12)" -> "format"
      [] m.text = "Invalid range: start must be <= end" -> "order"
      [] m.text = "Invalid range: start must be >= 1" -> "start"
      [] m.text = "Invalid range: episodes only go up to {}" -> "bounds"
      [] m.text = "Invalid range: episodes start at {}" -> "bounds"
      [] OTHER -> "none"

\* C10: on Enter in range-input mode (help overlay closed) a range_input that is
\* malformed, has start > end, start < 1 or a bound outside the loaded episodes'
\* numbers is rejected: handle_input returns None, sets an error message of a
\* kind the text violates (each kind has its own message), and changes nothing
\* else: range_input_mode stays true, range_input is unchanged, nothing is staged.
\* The same is checked with the episode list emptied, where every text violates.
C10_RangeRejected ==
    (app.range_input_mode /\ ~app.show_help) =>
        \A a \in {app, [app EXCEPT !.episodes = <<>>]} :
            \A v \in {RangeViolations(a.range_input, a.episodes)} :
                v # {} =>
                    \A k \in EnterKeys :
                        \A r \in {handle_input(a, k)} :
                            /\ r.action = ActNone
                            /\ r.app.error_message.some
                            /\ KindOfMessage(r.app.error_message.v) \in v
                            /\ r.app = [a EXCEPT !.error_message = r.app.error_message]
                            /\ r.app.range_input_mode
                            /\ r.app.range_input = a.range_input
                            /\ ~r.app.pending_batch_action.some
                            /\ ~r.app.batch_confirm_mode

\* A range text with no end was rejected: the format message is shown and the
\* text is still in the buffer, in range-input mode.
C10_Witness ==
    /\ pc = "poll"
    /\ app.range_input_mode
    /\ app.range_input = <<"2", "-">>
    /\ app.error_message =
           Some(Msg("Invalid range format. Use: start-end (e.g., 1-12)", 0))
    /\ ~app.pending_batch_action.some

\* ------------------------------------------------------------------- C11
\* The range text is start-end with 1 <= start <= end, start not below the lowest
\* and end not above the highest loaded episode number.
ValidRange(s, episodes) ==
    /\ WellFormedRange(s)
    /\ EpisodeNumbers(episodes) # {}
    /\ 1 <= RangeStart(s)
    /\ RangeStart(s) <= RangeEnd(s)
    /\ \E m \in EpisodeNumbers(episodes) : m <= RangeStart(s)
    /\ \E m \in EpisodeNumbers(episodes) : RangeEnd(s) <= m

\* C11: on Enter in range-input mode (help overlay closed) a valid range start-end
\* returns None, leaves range-input mode and stages BatchRange(start, end) in
\* batch-confirm mode; the next affirmative key returns BatchRange with the bounds
\* as typed, leaves batch-confirm mode and unstages the action.
C11_RangeStaged ==
    (app.range_input_mode /\ ~app.show_help
     /\ ValidRange(app.range_input, app.episodes)) =>
        \A k \in EnterKeys :
            \A r1 \in {handle_input(app, k)} :
                /\ r1.action = ActNone
                /\ ~r1.app.range_input_mode
                /\ r1.app.batch_confirm_mode
                /\ r1.app.pending_batch_action.some
                /\ r1.app.pending_batch_action.v.type = "BatchRange"
                /\ r1.app.pending_batch_action.v.i = RangeStart(app.range_input)
                /\ r1.app.pending_batch_action.v.j = RangeEnd(app.range_input)
                /\ \A y \in Affirmative :
                       \A r2 \in {handle_input(r1.app, y)} :
                           /\ r2.action.type = "BatchRange"
                           /\ r2.action.i = RangeStart(app.range_input)
                           /\ r2.action.j = RangeEnd(app.range_input)
                           /\ ~r2.app.batch_confirm_mode
                           /\ ~r2.app.pending_batch_action.some

\* The range 1-2 was typed over episodes 1 and 2 and accepted: BatchRange(1, 2)
\* is staged in batch-confirm mode.
C11_Witness ==
    /\ pc = "poll"
    /\ ~app.range_input_mode
    /\ app.batch_confirm_mode
    /\ app.range_input = <<"1", "-", "2">>
    /\ app.pending_batch_action.some
    /\ app.pending_batch_action.v.type = "BatchRange"
    /\ app.pending_batch_action.v.i = 1
    /\ app.pending_batch_action.v.j = 2

\* ------------------------------------------------------------ C12 .. C15
\* The call of choose_stream has ended (returned or panicked).
Called == pc \in {"selected", "no_sources", "panic"}

\* The source the call returned.
Selected == app.selected_source.v

Known(sources) == {x \in Elems(sources) : x.quality > 0}

Unknown(sources) == {x \in Elems(sources) : x.quality = 0}

\* The first source of the list that has unknown quality.
FirstUnknown(sources) ==
    sources[CHOOSE i \in 1..Len(sources) :
                /\ sources[i].quality = 0
                /\ \A j \in 1..(i - 1) : sources[j].quality # 0]

\* The text is an optional sign followed by one or more digits.
IsIntegerText(s) ==
    \/ IsDigits(s)
    \/ Len(s) > 1 /\ s[1] \in {"+", "-"} /\ IsDigits(SubSeq(s, 2, Len(s)))

\* The number an integer text of the token set denotes, for the texts within i32.
TokenNumber(s) ==
    CASE s = <<"7","2","0">> -> 720
      [] s = <<"6","0","0">> -> 600
      [] s = <<"+","4","8","0">> -> 480
      [] s = <<"0">> -> 0
      [] s = <<"-","1">> -> 0 - 1
      [] s = <<"2","1","4","7","4","8","3","6","4","7">> -> MaxI32
      [] s = <<"-","2","1","4","7","4","8","3","6","4","7">> -> 0 - MaxI32
      [] s = <<"-","2","1","4","7","4","8","3","6","4","8">> -> MinI32

NumericTokens == {s \in Tokens : IsIntegerText(s) /\ s # <<"3","0","0","0","0","0","0","0","0","0">>}

\* |x - n| <= |y - n| for qualities x, y > 0 and any i32 n, without leaving i32:
\* at n <= 0 every quality is above n, so the smaller one is the closer.
Closer(x, y, n) ==
    IF n <= 0 THEN x <= y
    ELSE (IF x < n THEN n - x ELSE x - n) <= (IF y < n THEN n - y ELSE y - n)

IsBest(token) == to_lowercase(token) = <<"b","e","s","t">>

IsWorst(token) == to_lowercase(token) = <<"w","o","r","s","t">>

\* C12: for every quality token, choose_stream on a non-empty list returns Ok with
\* a source that is an element of the list (the only source of a one-element
\* list), and returns an error only for the empty list.
C12_ElementOfInput ==
    Called =>
        IF app.sources = <<>> THEN pc = "no_sources"
        ELSE /\ pc = "selected"
             /\ Selected \in Elems(app.sources)
             /\ Len(app.sources) = 1 => Selected = app.sources[1]

\* C13 as stated: with a source of known quality, best returns a source of the
\* highest and worst a source of the lowest known quality; with none, both
\* return the first source of unknown quality.
C13_BestWorstUnknown ==
    (Called /\ app.sources # <<>> /\ (IsBest(app.quality) \/ IsWorst(app.quality))) =>
        /\ pc = "selected"
        /\ IF Known(app.sources) # {}
           THEN /\ Selected \in Known(app.sources)
                /\ IsBest(app.quality) =>
                       \A x \in Known(app.sources) : x.quality <= Selected.quality
                /\ IsWorst(app.quality) =>
                       \A x \in Known(app.sources) : x.quality >= Selected.quality
           ELSE /\ Unknown(app.sources) # {}
                /\ Selected = FirstUnknown(app.sources)

\* C13: with a source of known quality (> 0), best returns a source of the
\* highest and worst a source of the lowest known quality, never one of unknown
\* quality; with none, both return the first source of unknown quality (0) when
\* there is one, and the first source of the list otherwise.
C13_BestWorst ==
    (Called /\ app.sources # <<>> /\ (IsBest(app.quality) \/ IsWorst(app.quality))) =>
        /\ pc = "selected"
        /\ IF Known(app.sources) # {}
           THEN /\ Selected \in Known(app.sources)
                /\ IsBest(app.quality) =>
                       \A x \in Known(app.sources) : x.quality <= Selected.quality
                /\ IsWorst(app.quality) =>
                       \A x \in Known(app.sources) : x.quality >= Selected.quality
           ELSE IF Unknown(app.sources) # {}
           THEN Selected = FirstUnknown(app.sources)
           ELSE Selected = app.sources[1]

\* best over the qualities 0, 480, 720 returned the 720 source.
C13_Witness ==
    /\ pc = "selected"
    /\ app.quality = <<"B","e","S","t">>
    /\ app.sources = <<StreamSource(0, "1"), StreamSource(480, "2"), StreamSource(720, "3")>>
    /\ Selected = StreamSource(720, "3")

\* C14: for a numeric token N and a list of two or more sources, choose_stream
\* returns a known-quality source of quality exactly N when there is one;
\* otherwise, when some source has known quality, a known-quality source with
\* the least |quality - N|, the higher quality when two are equally close;
\* otherwise the first source of the list.
C14_NumericClosest ==
    (Called /\ Len(app.sources) >= 2 /\ app.quality \in NumericTokens) =>
        \A n \in {TokenNumber(app.quality)} :
            /\ pc = "selected"
            /\ IF \E x \in Known(app.sources) : x.quality = n
               THEN Selected \in Known(app.sources) /\ Selected.quality = n
               ELSE IF Known(app.sources) # {}
               THEN /\ Selected \in Known(app.sources)
                    /\ \A x \in Known(app.sources) :
                           /\ Closer(Selected.quality, x.quality, n)
                           /\ Closer(x.quality, Selected.quality, n) =>
                                  x.quality <= Selected.quality
               ELSE Selected = app.sources[1]

\* C15: for a token that is neither best nor worst in any letter case and is not
\* an integer text (or is one that no i32 holds), choose_stream on a non-empty
\* list returns the first source of the list, whatever the qualities, and never
\* an error.
C15_FallbackFirst ==
    (Called /\ app.sources # <<>> /\ ~IsBest(app.quality) /\ ~IsWorst(app.quality)
     /\ (~IsIntegerText(app.quality)
         \/ app.quality = <<"3","0","0","0","0","0","0","0","0","0">>)) =>
        /\ pc = "selected"
        /\ Selected = app.sources[1]

\* The token 72p over the qualities 480, 720 returned the 480 source, the first.
C15_Witness ==
    /\ pc = "selected"
    /\ app.quality = <<"7","2","p">>
    /\ app.sources = <<StreamSource(480, "1"), StreamSource(720, "2")>>
    /\ Selected = StreamSource(480, "1")

\* ------------------------------------------------------------ C16 .. C18
\* The decimal text of the episode numbers of the lists.
DecimalText(n) ==
    CASE n = 1 -> <<"1">> [] n = 2 -> <<"2">> [] n = 3 -> <<"3">>
      [] n = 10 -> <<"1","0">> [] n = 11 -> <<"1","1">> [] n = 12 -> <<"1","2">>

\* Two characters are the same letter, in either case.
SameLetter(c, d) == c = d \/ {c, d} = {"f", "F"}

\* f occurs in t at offset o, letter case set aside or not.
OccursAt(f, t, o, anycase) ==
    /\ o + Len(f) <= Len(t)
    /\ \A i \in 1..Len(f) :
           IF anycase THEN SameLetter(t[o + i], f[i]) ELSE t[o + i] = f[i]

\* The episode matches the filter text: its decimal number contains the text, or
\* its title, when it has one, contains it in any letter case.
EpisodeMatches(e, f) ==
    \/ \E o \in 0..Len(DecimalText(e.number)) : OccursAt(f, DecimalText(e.number), o, FALSE)
    \/ e.title.some /\ \E o \in 0..Len(e.title.v) : OccursAt(f, e.title.v, o, TRUE)

\* The positions, in the episode list, of the episodes that match.
MatchingPositions(a) ==
    {i \in 1..Len(a.episodes) : EpisodeMatches(a.episodes[i], a.episode_filter)}

\* view is the episodes at the positions ps, in the order of the list.
IsViewOf(view, a, ps) ==
    /\ Len(view) = Cardinality(ps)
    /\ \A k \in 1..Len(view) :
           \E i \in ps : /\ Cardinality({m \in ps : m < i}) = k - 1
                          /\ view[k] = a.episodes[i]

\* C16: get_filtered_episodes returns, in the order of the list, exactly the
\* episodes whose decimal number contains the filter text or whose title, when
\* present, contains it in any letter case; the empty filter returns every
\* episode; the filter 1 over the episodes 1, 2, 10, 11, 12 gives 1, 10, 11, 12.
C16_FilteredView ==
    \A view \in {get_filtered_episodes(app)} :
        /\ IsViewOf(view, app, MatchingPositions(app))
        /\ app.episode_filter = <<>> => view = app.episodes
        /\ (app.episode_filter = <<"1">>
            /\ app.episodes = <<Episode(1), Episode(2), Episode(10), Episode(11), Episode(12)>>)
               => view = <<Episode(1), Episode(10), Episode(11), Episode(12)>>

\* The filter f was typed over a list with titles: the view holds the episode
\* titled F1 and the episode titled ff, and not the untitled episode 3.
C16_Witness ==
    /\ pc = "poll"
    /\ app.screen = "EpisodeList"
    /\ app.episode_filter = <<"f">>
    /\ Len(app.episodes) = 3
    /\ get_filtered_episodes(app) =
           <<EpisodeTitled(2, <<"F","1">>), EpisodeTitled(12, <<"f","f">>)>>

\* C17: while the episode filter is active (help overlay closed), a key that
\* changes episode_filter returns None and sets the episode cursor to 0, and so
\* does Backspace on an empty filter; Enter and Escape return None, switch the
\* filter mode off, keep the filter text, and set the cursor to 0 when the
\* filtered view is not empty.
C17_FilterKeys ==
    (app.episode_filter_active /\ ~app.show_help) =>
        /\ \A k \in AllKeys :
               \A r \in {handle_input(app, k)} :
                   (r.app.episode_filter # app.episode_filter
                    \/ [k EXCEPT !.ctrl = FALSE, !.alt = FALSE] = KeyBackspace) =>
                       /\ r.action = ActNone
                       /\ r.app.episode_list_state = 0
                       /\ r.app.episode_filter_active
        /\ \A k \in {KeyEnter, KeyEsc} :
               \A r \in {handle_input(app, k)} :
                   /\ r.action = ActNone
                   /\ ~r.app.episode_filter_active
                   /\ r.app.episode_filter = app.episode_filter
                   /\ MatchingPositions(app) # {} => r.app.episode_list_state = 0
                   /\ r.app.screen = app.screen

\* The filter is active with the cursor moved down the list to position 2, and
\* typing a character into the filter puts the cursor back to 0.
C17_Witness ==
    /\ pc = "poll"
    /\ app.episode_filter_active
    /\ ~app.show_help
    /\ app.episode_list_state = 2
    /\ Len(app.episodes) = 5
    /\ \A r \in {handle_input(app, KeyChar("1"))} :
           /\ r.app.episode_filter = <<"1">>
           /\ r.app.episode_list_state = 0

\* C18: on EpisodeList (main panel, no modal mode) select with the cursor at
\* position i of the filtered view returns SelectEpisode(j), where j is an index
\* into the whole episode list and episodes[j] is the episode shown at position
\* i of the view; with the cursor outside the view it returns None.
C18_SelectMapsBack ==
    (app.screen = "EpisodeList" /\ app.focus = "Main" /\ NoModalMode(app)) =>
        \A r \in {handle_input(app, KeyEnter)} :
            \A ps \in {MatchingPositions(app)} :
                IF app.episode_list_state >= 0 /\ app.episode_list_state < Cardinality(ps)
                THEN /\ r.action.type = "SelectEpisode"
                     /\ r.action.i >= 0 /\ r.action.i < Len(app.episodes)
                     /\ r.action.i + 1 \in ps
                     /\ Cardinality({m \in ps : m < r.action.i + 1}) = app.episode_list_state
                ELSE r.action = ActNone

\* Select on the filtered view 1, 10, 11, 12 at cursor 1 returned index 2, the
\* index of episode 10 in the whole list.
C18_Witness ==
    /\ action = ActSelectEpisode(2)
    /\ pc \in {"await", "poll"}
    /\ app.episode_filter = <<"1">>
    /\ Len(app.episodes) = 5
    /\ app.current_episode = Some(Episode(10))

\* ------------------------------------------------------------------- C19
\* ContinueFromHistory(i) has been handled and its episode fetch succeeded: the
\* loop is back at the poll on EpisodeList (a failed fetch ends on Startup).
Resumed ==
    /\ pc = "poll"
    /\ action.type = "ContinueFromHistory"
    /\ app.screen = "EpisodeList"

\* The number of the episode to resume at for a record whose last episode is n:
\* n + 1 if loaded, else n if loaded, else the first loaded episode's.
ResumeNumber(episodes, n) ==
    IF n + 1 \in EpisodeNumbers(episodes) THEN n + 1
    ELSE IF n \in EpisodeNumbers(episodes) THEN n
    ELSE episodes[1].number

\* C19: after ContinueFromHistory(i) for a record whose last episode is N, with
\* the episode fetch succeeded, the session is on EpisodeList and select resolves
\* the cursor to episode N + 1 if present, else N, else the first episode,
\* whether or not an episode filter text is still set.
C19_ResumeEpisode ==
    Resumed =>
        \A r \in {handle_input(app, KeyEnter)} :
            /\ r.action.type = "SelectEpisode"
            /\ r.action.i >= 0 /\ r.action.i < Len(app.episodes)
            /\ app.episodes[r.action.i + 1].number =
                   ResumeNumber(app.episodes, app.history_records[action.i + 1].episode)

\* C19 with no filter text left: the same, in the states where episode_filter is
\* empty.
C19_ResumeEpisodeNoFilter ==
    (Resumed /\ app.episode_filter = <<>>) => C19_ResumeEpisode

\* The session resumed the second record (last episode 2) over episodes 1, 2:
\* the cursor is on episode 2.
C19_Witness ==
    /\ Resumed
    /\ action.i = 1
    /\ app.episode_filter = <<>>
    /\ Len(app.episodes) = 2
    /\ app.episode_list_state = 1

\* ------------------------------------------------------------------- C20
\* Episode lists with numbers missing in between, as a catalog may list them.
GapLists == { <<Episode(1), Episode(3)>>, <<Episode(2), Episode(3), Episode(5)>> }

\* The Playback states the options are checked on: the state itself, and the
\* state with each list of GapLists loaded and each of its episodes current.
PlaybackVariants(a) ==
    {a} \cup { [a EXCEPT !.episodes = l, !.current_episode = Some(l[i])] :
                 <<l, i>> \in { <<l, i>> \in GapLists \X (1..3) : i <= Len(l) } }

\* The action an option of the playback menu stands for.
ActionOfOption(o) ==
    CASE o = "Next episode" -> ActNext
      [] o = "Replay" -> ActReplay
      [] o = "Previous episode" -> ActPrevious
      [] o = "Select episode" -> ActBackToEpisodes
      [] o = "Quit" -> ActQuit

InRange(e, act) == act.i <= e.number /\ e.number <= act.j

TargetSet(a, act) ==
    CASE act.type = "BatchAll" -> a.episodes
      [] act.type = "BatchRange" ->
             SelectSeq(a.episodes, LAMBDA e : InRange(e, act))
      [] act.type = "BatchSingle" -> <<a.current_episode.v>>

InBatch(p) == p \in {"batch", "batch_sleep"}

\* C21: a batch action starts the download loop at the first episode of its
\* target set (all episodes, those with start <= number <= end, or the current
\* episode, in list order); every pass of the loop handles the episode at the
\* loop's position and moves the position on by one, whether the episode was
\* skipped, failed (no sources, download failure: the position moves on after
\* the error was shown) or was downloaded; the loop is left only with every
\* episode of the target set handled, and the screen is then EpisodeList.
C21_BatchRunsThrough ==
    [][ /\ (~InBatch(pc) /\ InBatch(pc')) =>
              /\ action'.type \in {"BatchAll", "BatchRange", "BatchSingle"}
              /\ pc' = "batch"
              /\ batch_queue' = TargetSet(app', action')
              /\ batch_idx' = 0
        /\ (InBatch(pc) /\ InBatch(pc')) =>
              /\ batch_queue' = batch_queue
              /\ action' = action
              /\ batch_idx < Len(batch_queue)
              /\ IF pc = "batch" /\ pc' = "batch_sleep"
                 THEN batch_idx' = batch_idx /\ app'.error_message.some
                 ELSE pc' = "batch" /\ batch_idx' = batch_idx + 1
        /\ (InBatch(pc) /\ ~InBatch(pc')) =>
              /\ pc = "batch"
              /\ batch_idx = Len(batch_queue)
              /\ app'.screen = "EpisodeList"
      ]_vars

\* A range batch over the episodes 2 and 3 of 1, 2, 3 shows the error of its
\* first episode, the second still to come.
C21_Witness ==
    /\ pc = "batch_sleep"
    /\ action = ActBatchRange(2, 3)
    /\ batch_queue = <<Episode(2), Episode(3)>>
    /\ Len(app.episodes) = 3
    /\ batch_idx = 0
    /\ app.error_message = Some(Msg("Download failed", 0))

\* ------------------------------------------------------------------ C22
\* The pass of the download loop this step makes, if it makes one.
BatchPass == pc = "batch" /\ batch_idx < Len(batch_queue)

PassEpisode == batch_queue[batch_idx + 1]

\* The pass skipped the episode (the file exists) or failed.
PassSkipped ==
    app'.status_message = Some(Msg("Skipping (exists)", batch_idx + 1))

PassFailed == pc' = "batch_sleep"

Names(h, a, e) ==
    /\ a.selected_show.v.id \in DOMAIN h
    /\ \E t \in Times :
           h[a.selected_show.v.id] =
               WatchRecord(a.selected_show.v.id, a.selected_show.v.name, e.number,
                           a.mode, t)

LookupActions ==
    {"Search", "SelectShow", "SelectEpisode", "Next", "Previous", "Replay",
     "ContinueFromHistory"}

\* The sessions a failed lookup of the action act is folded into, a being the
\* session while the lookup is in flight: the lookup answered an error, or an
\* empty result.  (An empty episode list for ContinueFromHistory leaves no
\* session: see C25.)
FailedLookup(a, act) ==
    CASE act.type = "Search" ->
             {search_result(a, FALSE, <<>>), search_result(a, TRUE, <<>>)}
      [] act.type = "SelectShow" ->
             {select_show_result(a, FALSE, <<>>), select_show_result(a, TRUE, <<>>)}
      [] act.type = "SelectEpisode" ->
             {select_episode_result(a, FALSE, <<>>),
              select_episode_result(a, TRUE, <<>>)}
      [] act.type \in {"Next", "Previous", "Replay"} ->
             {navigate_result(a, FALSE, <<>>), navigate_result(a, TRUE, <<>>)}
      [] act.type = "ContinueFromHistory" ->
             {continue_result(a, act.i, FALSE, <<>>).app}

\* The sessions the loop polls the next key in after the failed lookup.
AfterFailedLookup(a, act) == {end_iteration(x, act) : x \in FailedLookup(a, act)}

\* The keys whose action, pressed in the session a, starts a lookup of one of
\* the types.
LookupKeys(a, types) ==
    {k \in Keys :
        \E r \in {handle_input(a, k)} :
            /\ r.action.type \in types
            /\ begin_effect(r.app, r.action).next = "await"}

ScreenRestored(a, k) ==
    \A r \in {handle_input(a, k)} :
        \A x \in AfterFailedLookup(begin_effect(r.app, r.action).app, r.action) :
            x.screen = a.screen

\* C23: whenever a key press yields an action that performs a catalog lookup
\* (Search, SelectShow, SelectEpisode, Next, Previous, Replay,
\* ContinueFromHistory) and the lookup fails (an error, or an empty result),
\* the screen once the effect is complete is the screen that was displayed when
\* the key was pressed.
C23_FailedLookupRestoresScreen ==
    pc = "poll" =>
        \A k \in LookupKeys(app, LookupActions) : ScreenRestored(app, k)

\* ------------------------------------------------------------------ C24
\* C24: when the effect of an action raises an error (a lookup in flight answers
\* so that the arm calls set_error), error_message is set when the loop next
\* draws and polls for a key.
C24_ErrorShownAtNextPoll ==
    (pc = "await" /\ action.type \in LookupActions) =>
        \A x \in FailedLookup(app, action) :
            x.error_message.some => end_iteration(x, action).error_message.some

\* Every state in which the loop polls right after an effect (a lookup or a
\* batch) has no error message: the error an effect sets is cleared within the
\* iteration that set it.
C24_NoErrorAfterEffect ==
    (pc = "poll"
        /\ action.type \in LookupActions \cup {"BatchAll", "BatchRange", "BatchSingle"})
        => app.error_message = None

\* A search is in flight; its error answer sets the error message.
C24_Witness ==
    /\ pc = "await"
    /\ action.type = "Search"
    /\ search_result(app, FALSE, <<>>).error_message.some

\* ------------------------------------------------------------------ C25
\* C25: the run loop ends only through a quit (the last action is Quit, or
\* should_quit is set), and no answer of the catalog makes it panic.
C25_EndsOnlyByQuit ==
    /\ pc # "panic"
    /\ pc = "done" => (action.type = "Quit" \/ app.should_quit)

\* The same with ContinueFromHistory leaving an empty episode list aside: the
\* loop then ends by a quit only, and an empty episode list for SelectShow or an
\* empty source list is folded into the session.
C25_EndsOnlyByQuitButResume ==
    /\ pc = "panic" => action.type = "ContinueFromHistory"
    /\ pc = "done" => (action.type = "Quit" \/ app.should_quit)
    /\ (pc = "await" /\ action.type = "ContinueFromHistory") =>
           \A episodes \in EpisodeResults :
               continue_result(app, action.i, TRUE, episodes).panic <=> episodes = <<>>

\* ------------------------------------------------------------------ C26
\* The sessions routing key k against the session a may give, up to the end of
\* the iteration or to the first await of the action's arm.
Routed(a, k) ==
    {IF b.next = "poll" THEN end_iteration(b.app, r.action) ELSE b.app :
        b \in {begin_effect(r.app, r.action) : r \in {handle_input(a, k)}},
        r \in {handle_input(a, k)}}

\* C26: a key event leaves the queue only when the loop polls (no effect is in
\* flight), it is the oldest one of the queue, the others keep their order, and
\* it is routed through handle_input against the session as the completed
\* effects left it; a key that arrives, whenever it does, only joins the end of
\* the queue; and while a lookup or a batch is in flight the session changes by
\* the effect alone, the queue only growing.
C26_KeysWaitForEffect ==
    [][ /\ key_queue' # key_queue =>
              \/ /\ \E k \in QueueKeys : key_queue' = Append(key_queue, k)
                 /\ UNCHANGED <<app, action, pc>>
              \/ /\ pc = "poll"
                 /\ key_queue # <<>>
                 /\ key_queue' = Tail(key_queue)
                 /\ action' = handle_input(app, Head(key_queue)).action
                 /\ app' \in Routed(app, Head(key_queue))
        /\ (pc # "poll" /\ <<app, action, pc>>' # <<app, action, pc>>) =>
              key_queue' = key_queue
        /\ (pc = "poll" /\ <<app, action, pc>>' # <<app, action, pc>>) =>
              key_queue # <<>> /\ key_queue' = Tail(key_queue)
      ]_vars

\* Two different keys arrived while the source lookup of SelectEpisode was in
\* flight and wait in the queue, after two keys that were routed.
C26_Witness ==
    /\ pc = "await"
    /\ action.type = "SelectEpisode"
    /\ keys_handled = 2
    /\ Len(key_queue) = 2
    /\ key_queue[1] # key_queue[2]

\* A key arrived while a batch download was running and waits in the queue.
C26_WitnessBatch ==
    /\ pc = "batch"
    /\ batch_idx < Len(batch_queue)
    /\ Len(key_queue) = 1

\* ------------------------------------------------------------------ C27
\* C27: the history holds one record per show id (the record kept for a show id
\* names that show id, so no two records name the same show), and an update
\* call for a show leaves that show's record carrying the call's name, episode
\* and mode, whatever the record held before (a lower episode number
\* overwrites a higher one), adds no other record and changes no other record.
C27_OneRecordPerShow ==
    pc = "update" =>
        /\ \A id \in DOMAIN watch_history : watch_history[id].show_id = id
        /\ Cardinality(values(watch_history)) = Cardinality(DOMAIN watch_history)
        /\ \A c \in UpdateCalls, now \in Times :
               \A h \in {update(watch_history, c.show.id, c.show.name, c.episode,
                                c.mode, now)} :
                   /\ DOMAIN h = DOMAIN watch_history \cup {c.show.id}
                   /\ h[c.show.id] = WatchRecord(c.show.id, c.show.name, c.episode,
                                                 c.mode, now)
                   /\ \A id \in DOMAIN watch_history \ {c.show.id} :
                          h[id] = watch_history[id]

\* Show a is recorded at episode 2 under the name A, show b is recorded too, and
\* an update of show a to episode 1 under another name and mode overwrites it.
C27_Witness ==
    /\ pc = "update"
    /\ DOMAIN watch_history = {"a", "b"}
    /\ watch_history["a"].episode = 2
    /\ watch_history["a"].show_name = "A"
    /\ watch_history["a"].mode = "sub"
    /\ update(watch_history, "a", "A2", 1, "dub", 0)["a"]
           = WatchRecord("a", "A2", 1, "dub", 0)

\* ------------------------------------------------------------------ C28
\* The limits get_recent is asked with: none, some, all and more than all.
Limits == 0..13

Smaller(x, y) == IF x < y THEN x ELSE y

\* C28: for every limit, every vector get_recent(limit) may return has
\* min(limit, number of records) records of the history, no record twice, in
\* descending order of timestamp, and no record left out has a larger timestamp
\* than a record returned; and history_records, built from get_recent(10), is
\* the tuples of such a vector and holds at most 10 entries.
C28_RecentRecords ==
    /\ \A limit \in Limits :
           \A r \in get_recent(watch_history, limit) :
               /\ Len(r) = Smaller(limit, Cardinality(DOMAIN watch_history))
               /\ Elems(r) \subseteq values(watch_history)
               /\ Cardinality(Elems(r)) = Len(r)
               /\ \A i \in 1..Len(r) : \A j \in i..Len(r) :
                      r[i].timestamp >= r[j].timestamp
               /\ \A o \in values(watch_history) \ Elems(r) :
                      \A i \in 1..Len(r) : r[i].timestamp >= o.timestamp
    /\ pc = "poll" =>
           /\ Len(app.history_records) <= 10
           /\ Len(app.history_records) = Smaller(10, Cardinality(DOMAIN watch_history))
           /\ app.history_records
                  \in {history_tuples(r) : r \in get_recent(watch_history, 10)}

\* The session starts with the ten most recent of thirteen records: the eleven
\* stored ones and those of the shows a and b.
C28_Witness ==
    /\ pc = "poll"
    /\ Cardinality(DOMAIN watch_history) = 13
    /\ Len(app.history_records) = 10
    /\ app.history_records[1].show_id = "m"

\* ------------------------------------------------------------------ C29
\* The session shows the given screen with Main focus and no modal mode, and the
\* loop polls.
OnMainPanel(screen) ==
    /\ pc = "poll"
    /\ app.screen = screen
    /\ app.focus = "Main"
    /\ NoModalMode(app)

\* The keys of a binding list.
KeysOf(bindings) == {k \in AllKeys : matches(bindings, k)}

\* C29: on the Startup screen with Main focus and no modal mode, every key of
\* the new_search binding (s and n by default) sets the screen to Search,
\* changes nothing else and returns Action::None.
C29_NewSearchKeys ==
    OnMainPanel("Startup") =>
        \A k \in KeysOf(kb.new_search) :
            handle_input(app, k) = Ret([app EXCEPT !.screen = "Search"], ActNone)

\* The same for the keys of new_search that the search binding does not take
\* (n, but not s); a key of both bindings focuses the search bar and leaves the
\* screen as it is.
C29_NewSearchKeysNotSearch ==
    OnMainPanel("Startup") =>
        /\ \A k \in KeysOf(kb.new_search) \ KeysOf(kb.search) :
               handle_input(app, k) = Ret([app EXCEPT !.screen = "Search"], ActNone)
        /\ \A k \in KeysOf(kb.new_search) \cap KeysOf(kb.search) :
               handle_input(app, k) = Ret([app EXCEPT !.search_focused = TRUE], ActNone)

\* ------------------------------------------------------------------ C30
\* C30: on the ShowList screen with Main focus and no modal mode, every key of
\* the select binding returns SelectShow(i) for the cursor position i (when the
\* list has a cursor) and leaves the session as it is, and some key press sets
\* the screen to Search.
C30_ShowListSelectAndSearch ==
    OnMainPanel("ShowList") =>
        /\ app.show_list_state # NoSel =>
               \A k \in KeysOf(kb.select) :
                   handle_input(app, k) = Ret(app, ActSelectShow(app.show_list_state))
        /\ \E k \in AllKeys : handle_input(app, k).app.screen = "Search"

\* On that panel select returns SelectShow(i) for the cursor i, or None when the
\* list has no cursor (the empty list shown after going back from a resumed
\* episode list), and no key press changes the screen to Search: the keys of
\* the search binding focus the search bar, the screen still ShowList.
C30_ShowListSelectNoSearch ==
    OnMainPanel("ShowList") =>
        /\ \A k \in KeysOf(kb.select) :
               handle_input(app, k) =
                   Ret(app, IF app.show_list_state # NoSel
                            THEN ActSelectShow(app.show_list_state) ELSE ActNone)
        /\ app.show_list_state # NoSel =>
               app.show_list_state \in 0..(Len(app.shows) - 1)
        /\ \A k \in AllKeys : handle_input(app, k).app.screen # "Search"
        /\ \A k \in KeysOf(kb.search) :
               handle_input(app, k) = Ret([app EXCEPT !.search_focused = TRUE], ActNone)

\* ------------------------------------------------------------------ C31
\* The sidebar is focused, no modal mode is active, and the loop polls.
OnSidebar == pc = "poll" /\ app.focus = "Sidebar" /\ NoModalMode(app)

\* C31: with sidebar focus and no modal mode, and n history records: the
\* cursor, when there are records, is one of 0..n-1; up moves it to the
\* position before, staying at 0, and down to the position after, staying at
\* n-1, both returning None and changing nothing else; select returns
\* ContinueFromHistory(cursor) with Focus set to Main and nothing else changed;
\* a key of the quit binding returns Quit; and whatever the key, the screen stays
\* as it is and the action returned is None, Quit or ContinueFromHistory, never
\* an action of the screen behind the sidebar.
C31_SidebarKeys ==
    OnSidebar =>
        LET n == Len(app.history_records)
            c == app.history_list_state
        IN  /\ IF n > 0 THEN c \in 0..(n - 1) ELSE c = NoSel
            /\ \A k \in KeysOf(kb.up) :
                   handle_input(app, k) =
                       Ret([app EXCEPT !.history_list_state =
                                           IF n > 0 /\ c > 0 THEN c - 1 ELSE c],
                           ActNone)
            /\ \A k \in KeysOf(kb.down) :
                   handle_input(app, k) =
                       Ret([app EXCEPT !.history_list_state =
                                           IF n > 0 /\ c < n - 1 THEN c + 1 ELSE c],
                           ActNone)
            /\ n > 0 =>
                   \A k \in KeysOf(kb.select) :
                       handle_input(app, k) =
                           Ret([app EXCEPT !.focus = "Main"], ActContinueFromHistory(c))
            /\ \A k \in KeysOf(kb.quit) : handle_input(app, k).action = ActQuit
            /\ \A k \in AllKeys :
                   \A r \in {handle_input(app, k)} :
                       /\ r.app.screen = app.screen
                       /\ r.action.type \in {"None", "Quit", "ContinueFromHistory"}
                       /\ r.action.type = "ContinueFromHistory" => k \in KeysOf(kb.select)
                       /\ r.action.type = "Quit" =>
                              k \in KeysOf(kb.quit) \cup ForceQuitChords

\* The sidebar is focused over the Playback screen, the cursor on the last of
\* two records: down stays there, up goes to the first, and the Next shortcut of
\* the Playback screen returns None and changes nothing.
C31_Witness ==
    /\ OnSidebar
    /\ app.screen = "Playback"
    /\ Len(app.history_records) = 2
    /\ app.history_list_state = 1
    /\ handle_input(app, KeyDown) = Ret(app, ActNone)
    /\ handle_input(app, KeyUp).app.history_list_state = 0
    /\ handle_input(app, KeyChar("n")) = Ret(app, ActNone)

\* C31 as worded, without regard to the records: with sidebar focus and no
\* modal mode select always returns a ContinueFromHistory action and sets Focus
\* to Main.
C31_SidebarSelectAlways ==
    OnSidebar =>
        \A k \in KeysOf(kb.select) :
            \A r \in {handle_input(app, k)} :
                /\ r.action.type = "ContinueFromHistory"
                /\ r.app.focus = "Main"

\* ------------------------------------------------------------------ C32
\* C32: when the loop polls with no modal mode active, on whatever screen, a
\* key of the toggle-focus binding returns None and changes Focus to the other
\* of Sidebar and Main; on entering Sidebar the history cursor becomes 0 if it
\* was unset and there are history records, and in every other case the cursor
\* is unchanged; nothing else changes; and a second press returns None and
\* gives back the original Focus.
C32_ToggleFocus ==
    (pc = "poll" /\ NoModalMode(app)) =>
        \A k \in KeysOf(kb.toggle_focus) :
            \A r \in {handle_input(app, k)} :
                LET other == IF app.focus = "Sidebar" THEN "Main" ELSE "Sidebar"
                    entering == other = "Sidebar" /\ app.history_list_state = NoSel
                                /\ Len(app.history_records) > 0
                IN  /\ r.action = ActNone
                    /\ r.app = [app EXCEPT !.focus = other,
                                           !.history_list_state =
                                               IF entering THEN 0 ELSE @]
                    /\ NoModalMode(r.app)
                    /\ \A r2 \in {handle_input(r.app, k)} :
                           /\ r2.action = ActNone
                           /\ r2.app.focus = app.focus
                           /\ r2.app.history_list_state = r.app.history_list_state
                           /\ ~entering => r2.app = app

\* The sidebar is focused over the episode list with the cursor on the second
\* record: Tab gives Main, a second Tab gives Sidebar, the cursor still on the
\* second record.
C32_Witness ==
    /\ pc = "poll"
    /\ NoModalMode(app)
    /\ app.screen = "EpisodeList"
    /\ app.focus = "Sidebar"
    /\ app.history_list_state = 1
    /\ handle_input(app, KeyTab).app.focus = "Main"
    /\ handle_input(handle_input(app, KeyTab).app, KeyTab).app = app

\* ------------------------------------------------------------------ C33
\* The batch menu has the keys: BatchSelect on the main panel, no modal mode.
OnBatchMenu ==
    /\ pc = "poll"
    /\ app.screen = "BatchSelect"
    /\ app.focus = "Main"
    /\ NoModalMode(app)

\* C33: the batch cursor is one of 0, 1, 2 in every state; and on the batch
\* menu select with the cursor on 2 (Single) returns BatchSingle and changes
\* nothing (no batch-confirm mode, no pending action staged), select with the
\* cursor on 1 (Range) returns None, turns range-input mode on and empties
\* range_input, changing nothing else, and no key takes the cursor out of 0..2.
C33_BatchMenu ==
    /\ app.batch_list_state \in 0..2
    /\ OnBatchMenu =>
           /\ \A k \in KeysOf(kb.select) :
                  /\ app.batch_list_state = 2 =>
                         handle_input(app, k) = Ret(app, ActBatchSingle)
                  /\ app.batch_list_state = 1 =>
                         handle_input(app, k) =
                             Ret([app EXCEPT !.range_input_mode = TRUE,
                                             !.range_input = <<>>],
                                 ActNone)
           /\ \A k \in AllKeys : handle_input(app, k).app.batch_list_state \in 0..2

\* The cursor is on Range with a bound left over from an earlier, cancelled
\* range input: select empties it.
C33_Witness ==
    /\ OnBatchMenu
    /\ app.batch_list_state = 1
    /\ app.range_input # <<>>
    /\ handle_input(app, KeyEnter).app.range_input = <<>>
    /\ handle_input(app, KeyEnter).app.range_input_mode

\* The cursor is on Single after a cancelled All: select returns BatchSingle,
\* and down stays on Single.
C33_WitnessSingle ==
    /\ OnBatchMenu
    /\ app.batch_list_state = 2
    /\ handle_input(app, KeyEnter) = Ret(app, ActBatchSingle)
    /\ ~handle_input(app, KeyEnter).app.batch_confirm_mode
    /\ handle_input(app, KeyDown) = Ret(app, ActNone)

\* ------------------------------------------------------------------ C34
\* C34: a pass of the download loop that finds the destination file of its
\* episode (it asks for nothing but the path, and announces the skip) makes no
\* source fetch and no download, updates and saves no watch history (the
\* history and the file are as before), changes nothing on display but the
\* status line, and leaves the loop at the next episode of the same target set
\* without the pause of a failure; and a pass skips its episode only so: every
\* other pass fetches the sources.
C34_ExistingFileSkipped ==
    [][ BatchPass =>
            /\ PassSkipped <=> calls' = {"exists"}
            /\ PassSkipped <=> "fetch_stream_sources" \notin calls'
            /\ PassSkipped =>
                   /\ calls' \cap {"fetch_stream_sources", "download_file",
                                   "update", "save"} = {}
                   /\ watch_history' = watch_history
                   /\ history_file' = history_file
                   /\ app' = [app EXCEPT !.status_message = app'.status_message]
                   /\ pc' = "batch"
                   /\ batch_idx' = batch_idx + 1
                   /\ batch_queue' = batch_queue
      ]_vars

\* Of a batch over 1, 2, 3 the first episode was downloaded and the second
\* skipped: the history still names episode 1, and episode 3 is to come.
C34_Witness ==
    /\ pc = "batch"
    /\ action = ActBatchAll
    /\ Len(batch_queue) = 3
    /\ batch_idx = 2
    /\ calls = {"exists"}
    /\ app.status_message = Some(Msg("Skipping (exists)", 2))
    /\ app.screen = "Loading"
    /\ DOMAIN watch_history = {"a"}
    /\ watch_history["a"].episode = 1

\* ------------------------------------------------------------------ C35
\* The answer is a failure that is_retryable_error accepts.
RetryableFailure(answer) == ~answer.ok /\ is_retryable_error(answer.v)

\* C35: a call of retry_with_backoff invokes the operation at most
\* MAX_RETRIES + 1 = 4 times; every invocation but the latest answered with a
\* retryable failure (so nothing is invoked after a success or after a
\* non-retryable failure); while the call has not returned, every answer so
\* far was a retryable failure and there were fewer than four; it returns Ok
\* with the value of the successful answer, and an error when the latest
\* answer is a non-retryable failure or the fourth failure; and the delay
\* slept before retry k is 500 * 2^(k-1) ms, one delay per retry.
C35_RetryWithBackoff ==
    LET n == Len(retry.answers)
    IN  /\ MAX_RETRIES + 1 = 4
        /\ n <= 4
        /\ \A i \in 1..(n - 1) : RetryableFailure(retry.answers[i])
        /\ IF retry.pc = "returned"
           THEN /\ n >= 1
                /\ retry.result.some
                /\ Len(retry.slept) = n - 1
                /\ IF retry.answers[n].ok
                   THEN retry.result.v = [ok |-> TRUE, v |-> retry.answers[n].v]
                   ELSE /\ ~retry.result.v.ok
                        /\ ~is_retryable_error(retry.answers[n].v) \/ n = 4
           ELSE /\ retry.result = None
                /\ n < 4
                /\ \A i \in 1..n : RetryableFailure(retry.answers[i])
                /\ Len(retry.slept) = n
                /\ retry.attempt = IF retry.pc = "sleep" THEN n - 1 ELSE n
        /\ Len(retry.slept) <= 3
        /\ \A k \in 1..Len(retry.slept) : retry.slept[k] = 500 * 2^(k - 1)

\* Four retryable failures: the call slept 500, 1000 and 2000 ms and returned
\* an error after the fourth.
C35_Witness ==
    /\ retry.pc = "returned"
    /\ Len(retry.answers) = 4
    /\ RetryableFailure(retry.answers[4])
    /\ retry.slept = <<500, 1000, 2000>>
    /\ retry.result.some
    /\ ~retry.result.v.ok

\* A success on the third attempt after two retryable failures is returned at
\* once.
C35_WitnessSuccess ==
    /\ retry.pc = "returned"
    /\ Len(retry.answers) = 3
    /\ retry.slept = <<500, 1000>>
    /\ retry.result = Some([ok |-> TRUE, v |-> "r2"])

\* A non-retryable failure on the second attempt ends the call.
C35_WitnessFatal ==
    /\ retry.pc = "returned"
    /\ Len(retry.answers) = 2
    /\ retry.answers[2] = [ok |-> FALSE, v |-> "status_404"]
    /\ retry.slept = <<500>>
    /\ ~retry.result.v.ok

\* ------------------------------------------------------------------ C36
\* C36: should_quit changes only from false to true, and only in an iteration
\* that polls a key for which handle_input returns Quit; after every step
\* should_quit is true exactly when the loop has been left by Quit; the
\* iteration in which a key returns Quit leaves the loop, and the loop is left
\* so only in such an iteration, with no lookup, download or batch begun, and
\* with the watch history, its file and the batch calls untouched; and once
\* the loop has been left nothing happens any more: no key is routed and no
\* effect is performed.
C36_QuitEndsLoop ==
    [][ /\ pc # "done"
        /\ app.should_quit => app'.should_quit
        /\ app'.should_quit # app.should_quit =>
               /\ pc = "poll"
               /\ keys_handled' = keys_handled + 1
               /\ action' = ActQuit
               /\ \E k \in Keys : handle_input(app, k) = Ret(app', ActQuit)
        /\ app'.should_quit <=> pc' = "done"
        /\ (keys_handled' # keys_handled /\ action' = ActQuit) => pc' = "done"
        /\ pc' = "done" =>
               /\ pc = "poll"
               /\ keys_handled' = keys_handled + 1
               /\ action' = ActQuit
               /\ batch_queue' = <<>>
               /\ watch_history' = watch_history
               /\ history_file' = history_file
               /\ calls' = calls
      ]_vars

\* The loop was left by a Quit returned on the Playback screen, an episode
\* played and recorded before.
C36_Witness ==
    /\ pc = "done"
    /\ action = ActQuit
    /\ app.should_quit
    /\ app.screen = "Playback"
    /\ app.current_episode.some
    /\ watch_history # WatchHistory_new

\* The loop was left by a Quit returned on a Loading screen that a failed
\* navigation left behind.
C36_WitnessLoading ==
    /\ pc = "done"
    /\ action = ActQuit
    /\ app.should_quit
    /\ app.screen = "Loading"

\* ------------------------------------------------------------------ C37
\* The index the action carries is a position of the list (0-based).
IndexWithin(act, list) == act.i \in 0..(Len(list) - 1)

\* C37: whenever the loop polls, whatever key comes next, the action that
\* handle_input returns for it carries an index within the list it refers to,
\* in the state handle_input leaves: SelectShow(i) has i < len(shows),
\* SelectEpisode(i) has i < len(episodes), ContinueFromHistory(i) has
\* i < len(history_records).
C37_ActionIndexInBounds ==
    pc = "poll" =>
        \A k \in AllKeys :
            \A r \in {handle_input(app, k)} :
                /\ r.action.type = "SelectShow" => IndexWithin(r.action, r.app.shows)
                /\ r.action.type = "SelectEpisode" =>
                       IndexWithin(r.action, r.app.episodes)
                /\ r.action.type = "ContinueFromHistory" =>
                       IndexWithin(r.action, r.app.history_records)

\* The episode list 1, 2 is filtered by the text 2 and the cursor is on the
\* only episode of the view, position 0: select returns the index 1 that
\* episode 2 has in the whole list.
C37_Witness ==
    /\ pc = "poll"
    /\ app.screen = "EpisodeList"
    /\ app.focus = "Main"
    /\ NoModalMode(app)
    /\ Len(app.episodes) = 2
    /\ app.episode_filter = <<"2">>
    /\ app.episode_list_state = 0
    /\ handle_input(app, KeyEnter).action = ActSelectEpisode(1)
    /\ app.episodes[2].number = 2

\* The cursor of the Startup screen is on the second and last history record:
\* select returns ContinueFromHistory(1).
C37_WitnessHistory ==
    /\ pc = "poll"
    /\ app.screen = "Startup"
    /\ app.focus = "Main"
    /\ Len(app.history_records) = 2
    /\ handle_input(app, KeyEnter).action = ActContinueFromHistory(1)

\* The cursor of the show list is on the last of the shows found: select
\* returns SelectShow with the last index.
C37_WitnessShow ==
    /\ pc = "poll"
    /\ app.screen = "ShowList"
    /\ Len(app.shows) >= 2
    /\ handle_input(app, KeyEnter).action = ActSelectShow(Len(app.shows) - 1)

\* ------------------------------------------------------------------ C38
\* C38: whenever the loop is about to poll for the next key event, the screen
\* is not Loading.
C38_LoadingIsTransient == pc = "poll" => app.screen # "Loading"

\* What holds in place of C38: an effect ends on the Loading screen only when
\* it is the source fetch of Next, Previous or Replay and nothing was played,
\* and the error of the failed fetch is then already cleared; the effects of
\* every other action, and a navigation that plays, end on another screen.
C38_LoadingOnlyAfterNavigation ==
    [][ (pc # "poll" /\ pc' = "poll" /\ app'.screen = "Loading") =>
            /\ pc = "await"
            /\ action.type \in {"Next", "Previous", "Replay"}
            /\ app' = [app EXCEPT !.error_message = None]
            /\ watch_history' = watch_history
      ]_vars

\* The loop polls on the Loading screen after a Next whose source fetch did
\* not lead to playback: no error is on display, and only the quit keys and
\* the global keys are taken.
C38_WitnessStuckLoading ==
    /\ pc = "poll"
    /\ app.screen = "Loading"
    /\ action = ActNext
    /\ app.error_message = None
    /\ handle_input(app, KeyEnter) = Ret(app, ActNone)

\* ------------------------------------------------------------------ C39
\* What the source fetch of a navigation answers when nothing gets played.
NoPlayback(a) ==
    {f \in [ok : BOOLEAN, sources : SourceResults] :
         /\ ~f.ok => f.sources = <<>>
         /\ ~played(f.ok, f.sources, a.quality)}

\* The Apps in which the iteration of a Next or Previous action act, returned
\* with the App a, can end without playback: the arm did not fetch (no adjacent
\* episode), or the fetch played nothing.
EndsWithoutPlayback(a, act) ==
    LET b == begin_effect(a, act)
    IN  IF b.next = "poll" THEN {end_iteration(b.app, act)}
        ELSE {end_iteration(navigate_result(b.app, f.ok, f.sources), act) :
                  f \in NoPlayback(b.app)}

\* C39: whenever the loop polls and the next key makes handle_input return
\* Next or Previous, every way the iteration can end without playback leaves
\* current_episode as it was before the key.
C39_NoPlaybackKeepsEpisode ==
    pc = "poll" =>
        \A k \in AllKeys :
            \A r \in {handle_input(app, k)} :
                r.action.type \in {"Next", "Previous"} =>
                    \A a2 \in EndsWithoutPlayback(r.app, r.action) :
                        a2.current_episode = app.current_episode

\* What holds in place of C39: when no adjacent episode exists the arm fetches
\* nothing and the iteration changes nothing at all; when one exists,
\* current_episode is that adjacent episode from before the fetch on, and it
\* stays so when the fetch plays nothing.
C39_EpisodeMovesBeforeFetch ==
    pc = "poll" =>
        \A k \in AllKeys :
            \A r \in {handle_input(app, k)} :
                r.action.type \in {"Next", "Previous"} =>
                    \A b \in {begin_effect(r.app, r.action)} :
                        IF b.next = "poll"
                        THEN /\ app.error_message = None
                             /\ EndsWithoutPlayback(r.app, r.action) = {app}
                        ELSE /\ b.app.current_episode # app.current_episode
                             /\ b.app.current_episode.some
                             /\ \A a2 \in EndsWithoutPlayback(r.app, r.action) :
                                    /\ a2.current_episode = b.app.current_episode
                                    /\ a2.screen = "Loading"

\* The playback menu of episode 2, the last of 1, 2: the Next shortcut returns
\* Next and the iteration leaves everything as it is.
C39_WitnessLastEpisode ==
    /\ pc = "poll"
    /\ app.screen = "Playback"
    /\ app.focus = "Main"
    /\ NoModalMode(app)
    /\ app.current_episode.some
    /\ app.current_episode.v.number = 2
    /\ Len(app.episodes) = 2
    /\ handle_input(app, KeyChar("n")).action = ActNext
    /\ begin_effect(app, ActNext).next = "poll"

\* The playback menu of episode 1 of 1, 2: after a Next whose fetch fails the
\* current episode is episode 2.
C39_WitnessFailedFetch ==
    /\ pc = "poll"
    /\ app.screen = "Playback"
    /\ app.focus = "Main"
    /\ NoModalMode(app)
    /\ app.current_episode.some
    /\ app.current_episode.v.number = 1
    /\ handle_input(app, KeyChar("n")).action = ActNext
    /\ \E a2 \in EndsWithoutPlayback(app, ActNext) : a2.current_episode.v.number = 2

\* ------------------------------------------------------------------ C40
\* The episode list is on screen with no modal mode, and its filtered view has
\* episodes.
EpisodeViewShown ==
    /\ app.screen = "EpisodeList"
    /\ NoModalMode(app)
    /\ get_filtered_episodes(app) # <<>>

\* C40: whenever the screen is EpisodeList, no modal mode is active and the
\* filtered view is non-empty, the episode cursor is a position of the
\* filtered view.
C40_CursorInView ==
    EpisodeViewShown =>
        app.episode_list_state \in 0..(Len(get_filtered_episodes(app)) - 1)

\* What holds in place of C40: in those states the cursor is a position of the
\* whole episode list, and a position of the view whenever no filter text is
\* set.
C40_CursorInList ==
    EpisodeViewShown =>
        /\ app.episode_list_state \in 0..(Len(app.episodes) - 1)
        /\ app.episode_filter = <<>> =>
               app.episode_list_state \in 0..(Len(get_filtered_episodes(app)) - 1)

\* The cursor is outside a view that has episodes, on whatever screen.
CursorPastView(a) ==
    /\ get_filtered_episodes(a) # <<>>
    /\ a.episode_list_state \notin 0..(Len(get_filtered_episodes(a)) - 1)

\* And: the only step that puts the cursor outside a view that has episodes is
\* the end of a ContinueFromHistory effect with a filter text set; no key
\* event, and no set_episodes after SelectShow, does so.
C40_OnlyResumeLeavesView ==
    [][ (~CursorPastView(app) /\ CursorPastView(app')) =>
            /\ pc = "await"
            /\ action.type = "ContinueFromHistory"
            /\ app'.episode_filter # <<>>
            /\ app'.episode_filter = app.episode_filter
      ]_vars

\* With the filter text 2 set, the list 1, 2 was loaded again from the history
\* record of episode 1: the view holds episode 2 alone and the cursor is at 1,
\* the position of episode 2 in the whole list; select returns nothing.
C40_WitnessCursorPastView ==
    /\ pc = "poll"
    /\ EpisodeViewShown
    /\ action.type = "ContinueFromHistory"
    /\ app.episode_filter = <<"2">>
    /\ Len(get_filtered_episodes(app)) = 1
    /\ app.episode_list_state = 1
    /\ handle_input(app, KeyEnter) = Ret(app, ActNone)
====
